---- MODULE Spec2Model ----
(***************************************************************************)
(* The property-matcher conversation pipeline of business_bot: the persona *)
(* graph of src/agents/property_matcher/graph.py driven by the chat turn   *)
(* handler of src/app.py (Spec); the listing normaliser of                 *)
(* src/business_bot/tools/bayut.py (SpecBayut); the map enricher of        *)
(* src/business_bot/tools/maps.py (SpecMaps); the requests of the Bayut    *)
(* toolset and the graph of src/business_bot/graph.py (SpecSearch); the    *)
(* recommendation workflow of src/business_bot/workflows/routing.py        *)
(* (SpecWorkflow).                                                         *)
(*                                                                         *)
(* Texts are sequences of one-character strings, so that the regular       *)
(* expressions and substring tests of the source are evaluated character   *)
(* by character.  Python dicts are functions whose DOMAIN is the set of    *)
(* keys present.  Floats are exact decimals [m, e] standing for m / 10^e.  *)
(***************************************************************************)
EXTENDS Integers, Sequences, FiniteSets, TLC

----------------------------------------------------------------------------
(* Bounds of the model *)

\* chat turns followed in one conversation
MaxTurns == 2

\* entries in the result list of one Bayut response
MaxBatch == 2

\* calls of the normaliser on one payload, of the enricher, of search_properties
MaxPasses == 2

----------------------------------------------------------------------------
(* Constants of the program *)

\* last_user[:280] in _invoke_persona
EchoLimit == 280

\* \d{7,9} of PHONE_REGEX
PhoneUaeMin == 7

PhoneUaeMax == 9

\* \d{7,12} of PHONE_REGEX
PhoneMin == 7

PhoneMax == 12

----------------------------------------------------------------------------
(* Python dicts and small helpers *)

EmptyDict == <<>>

Has(d, k) == k \in DOMAIN d

Get(d, k, default) == IF k \in DOMAIN d THEN d[k] ELSE default

Put(d, k, v) == [x \in (DOMAIN d) \cup {k} |-> IF x = k THEN v ELSE d[x]]

MinOf(S) == CHOOSE x \in S : \A y \in S : x <= y

MaxOf(S) == CHOOSE x \in S : \A y \in S : x >= y

RECURSIVE Pow10(_)
Pow10(n) == IF n = 0 THEN 1 ELSE 10 * Pow10(n - 1)

----------------------------------------------------------------------------
(* Characters *)

Digits == <<"0","1","2","3","4","5","6","7","8","9">>

LowerCase ==
    <<"a","b","c","d","e","f","g","h","i","j","k","l","m",
      "n","o","p","q","r","s","t","u","v","w","x","y","z">>

UpperCase ==
    <<"A","B","C","D","E","F","G","H","I","J","K","L","M",
      "N","O","P","Q","R","S","T","U","V","W","X","Y","Z">>

IsDigit(c) == \E i \in 1..10 : Digits[i] = c

DigitValue(c) == (CHOOSE i \in 1..10 : Digits[i] = c) - 1

IsLower(c) == \E i \in 1..26 : LowerCase[i] = c

IsUpper(c) == \E i \in 1..26 : UpperCase[i] = c

IsLetter(c) == IsLower(c) \/ IsUpper(c)

\* \s of the re module
IsSpace(c) == c \in {" ", "\t", "\n", "\r", "\f"}

\* \w of the re module
IsWordChar(c) == IsLetter(c) \/ IsDigit(c) \/ c = "_"

\* [\d,.]
IsDigitCommaDot(c) == IsDigit(c) \/ c \in {",", "."}

LowerChar(c) == IF IsUpper(c) THEN LowerCase[CHOOSE i \in 1..26 : UpperCase[i] = c] ELSE c

UpperChar(c) == IF IsLower(c) THEN UpperCase[CHOOSE i \in 1..26 : LowerCase[i] = c] ELSE c

\* str.lower()
Lower(text) == [i \in 1..Len(text) |-> LowerChar(text[i])]

\* str.title(): a letter that follows a non-letter is upper-cased, the others lower-cased
Title(text) ==
    [i \in 1..Len(text) |->
        IF i = 1 \/ ~IsLetter(text[i - 1]) THEN UpperChar(text[i]) ELSE LowerChar(text[i])]

\* pat occurs in text at position i
StartsWithAt(text, i, pat) ==
    /\ i >= 1
    /\ i + Len(pat) - 1 <= Len(text)
    /\ \A j \in 1..Len(pat) : text[i + j - 1] = pat[j]

\* Python's `pat in text`
Contains(text, pat) == \E i \in 1..(Len(text) + 1) : StartsWithAt(text, i, pat)

\* str.endswith
EndsWith(text, pat) == StartsWithAt(text, Len(text) - Len(pat) + 1, pat)

IsDot(c) == c = "."

NotComma(c) == c # ","

IsDigitOrDot(c) == IsDigit(c) \/ c = "."

\* [A-Z0-9._%+-] under re.IGNORECASE
IsEmailLocal(c) == IsLetter(c) \/ IsDigit(c) \/ c \in {".", "_", "%", "+", "-"}

\* [A-Z0-9.-] under re.IGNORECASE
IsEmailDomain(c) == IsLetter(c) \/ IsDigit(c) \/ c \in {".", "-"}

\* the character classes the patterns of the program use, by name
InClass(c, class) ==
    CASE class = "digit" -> IsDigit(c)
      [] class = "space" -> IsSpace(c)
      [] class = "letter" -> IsLetter(c)
      [] class = "digit_comma_dot" -> IsDigitCommaDot(c)
      [] class = "digit_or_dot" -> IsDigitOrDot(c)
      [] class = "dot" -> IsDot(c)
      [] class = "not_comma" -> NotComma(c)
      [] class = "email_local" -> IsEmailLocal(c)
      [] class = "email_domain" -> IsEmailDomain(c)

\* last index of the longest run of characters of the class that starts at i
\* (i - 1 when the run is empty): a greedy X* of the re module
RunEnd(text, i, class) ==
    LET stops == {j \in i..Len(text) : ~InClass(text[j], class)}
    IN  IF stops = {} THEN Len(text) ELSE MinOf(stops) - 1

\* the characters of text that are of the class, in order
Filter(text, class) == SelectSeq(text, LAMBDA c : InClass(c, class))

\* int() of a run of decimal digits
RECURSIVE ParseInt(_)
ParseInt(ds) ==
    IF ds = <<>> THEN 0
    ELSE 10 * ParseInt(SubSeq(ds, 1, Len(ds) - 1)) + DigitValue(ds[Len(ds)])

\* str() of a natural number
RECURSIVE IntToChars(_)
IntToChars(n) ==
    IF n < 10 THEN <<Digits[n + 1]>>
    ELSE Append(IntToChars(n \div 10), Digits[(n % 10) + 1])

----------------------------------------------------------------------------
(* Decimals: the floats of the source, kept exact *)

RECURSIVE Normalise(_)
Normalise(d) ==
    IF d.e > 0 /\ d.m % 10 = 0 THEN Normalise([m |-> d.m \div 10, e |-> d.e - 1]) ELSE d

Decimal(m, e) == Normalise([m |-> m, e |-> e])

\* d * 10^k
Scale(d, k) ==
    IF d.e >= k THEN Decimal(d.m, d.e - k) ELSE Decimal(d.m * Pow10(k - d.e), 0)

\* int(d * num / 10^k): truncation of a non-negative product, computed by parts
\* so that the product stays in range
TruncScaled(d, num, k) ==
    LET q == Pow10(d.e + k)
    IN  (d.m \div q) * num + ((d.m % q) * num) \div q

\* float() accepts digits with at most one decimal point (here the text always
\* starts with a digit); anything else raises ValueError
FloatValid(cs) == Len(Filter(cs, "dot")) <= 1

\* float() of a valid text
ParseFloat(cs) ==
    LET dots == {i \in 1..Len(cs) : cs[i] = "."}
        frac == IF dots = {} THEN 0 ELSE Len(cs) - MinOf(dots)
    IN  Decimal(ParseInt(Filter(cs, "digit")), frac)

----------------------------------------------------------------------------
(* The regular expressions of _extract_preferences *)

\* re.search found nothing
NoMatch == <<>>

Bed == <<"b","e","d">>

\* positions where (\d+)\s*(bed|bedroom) matches; "bed" is tried first and
\* always wins over "bedroom"
BedroomStarts(t) ==
    {i \in 1..Len(t) :
        /\ IsDigit(t[i])
        /\ LET j == RunEnd(t, i, "digit")
               k == RunEnd(t, j + 1, "space")
           IN  StartsWithAt(t, k + 1, Bed)}

\* group(1) of re.search(r"(\d+)\s*(bed|bedroom)", text_lower)
bedroom_match(t) ==
    IF BedroomStarts(t) = {} THEN NoMatch
    ELSE LET i == MinOf(BedroomStarts(t)) IN SubSeq(t, i, RunEnd(t, i, "digit"))

\* (?:m|million|k|aed)
BudgetSuffixes == <<<<"m">>, <<"m","i","l","l","i","o","n">>, <<"k">>, <<"a","e","d">>>>

\* length matched at pos by an optional group of alternatives tried in order
FirstAlternative(t, pos, alts) ==
    LET hits == {a \in 1..Len(alts) : StartsWithAt(t, pos, alts[a])}
    IN  IF hits = {} THEN 0 ELSE Len(alts[MinOf(hits)])

\* group(1) of re.search(r"(\d+[\d,.]*\s*(?:m|million|k|aed)?)\s*(?:aed|...)?", text_lower):
\* the match starts at the first digit of the text, every later part is optional
budget_match(t) ==
    LET starts == {i \in 1..Len(t) : IsDigit(t[i])}
    IN  IF starts = {} THEN NoMatch
        ELSE LET i0 == MinOf(starts)
                 j1 == RunEnd(t, i0, "digit")
                 j2 == RunEnd(t, j1 + 1, "digit_comma_dot")
                 j3 == RunEnd(t, j2 + 1, "space")
                 sfx == FirstAlternative(t, j3 + 1, BudgetSuffixes)
             IN  SubSeq(t, i0, j3 + sfx)

\* re.sub(r"[^0-9.]", "", value.replace(",", ""))
BudgetDigits(group1) == Filter(Filter(group1, "not_comma"), "digit_or_dot")

\* the power of ten the suffix multiplies by
BudgetExponent(group1) ==
    LET value == Filter(group1, "not_comma")
    IN  IF EndsWith(value, <<"m">>) \/ Contains(value, BudgetSuffixes[2]) THEN 6
        ELSE IF EndsWith(value, <<"k">>) THEN 3
        ELSE 0

\* the names of the location list of _extract_preferences, in declaration order
Gazetteer ==
    <<<<"d","u","b","a","i"," ","m","a","r","i","n","a">>,
      <<"d","o","w","n","t","o","w","n">>,
      <<"j","l","t">>,
      <<"b","u","s","i","n","e","s","s"," ","b","a","y">>,
      <<"p","a","l","m">>,
      <<"d","u","b","a","i"," ","h","i","l","l","s">>,
      <<"j","u","m","e","i","r","a","h">>,
      <<"a","r","a","b","i","a","n"," ","r","a","n","c","h","e","s">>>>

\* the keyword dict of _extract_preferences, in declaration order
PropertyTypes ==
    <<<<"a","p","a","r","t","m","e","n","t">>,
      <<"v","i","l","l","a">>,
      <<"t","o","w","n","h","o","u","s","e">>,
      <<"p","e","n","t","h","o","u","s","e">>>>

\* ord() of the characters that occur in the gazetteer
CodePoint(c) ==
    IF IsLower(c) THEN 96 + (CHOOSE i \in 1..26 : LowerCase[i] = c)
    ELSE IF IsUpper(c) THEN 64 + (CHOOSE i \in 1..26 : UpperCase[i] = c)
    ELSE IF IsDigit(c) THEN 48 + DigitValue(c)
    ELSE 32

\* a < b for Python strings
LexLess(a, b) ==
    \E i \in 1..(Len(b)) :
        /\ \A j \in 1..(i - 1) : j <= Len(a) /\ a[j] = b[j]
        /\ i - 1 <= Len(a)
        /\ (i > Len(a) \/ CodePoint(a[i]) < CodePoint(b[i]))

\* sorted(S) for a set of strings
RECURSIVE Sorted(_)
Sorted(S) ==
    IF S = {} THEN <<>>
    ELSE LET least == CHOOSE x \in S : \A y \in S \ {x} : LexLess(x, y)
         IN  <<least>> \o Sorted(S \ {least})

\* the location list comprehension followed by sorted(set(locations))
MatchedLocations(t) ==
    Sorted({Gazetteer[i] : i \in {j \in 1..Len(Gazetteer) : Contains(t, Gazetteer[j])}})

\* the first keyword of the dict found in the text, NoMatch when none is
MatchedPropertyType(t) ==
    LET hits == {i \in 1..Len(PropertyTypes) : Contains(t, PropertyTypes[i])}
    IN  IF hits = {} THEN NoMatch ELSE PropertyTypes[MinOf(hits)]

----------------------------------------------------------------------------
(* EMAIL_REGEX and PHONE_REGEX *)

\* end of the match of EMAIL_REGEX that starts at s, 0 when there is none: the
\* local part runs up to the "@", the domain backtracks to its last "." that two
\* letters follow, the letters after it are taken greedily
EmailEndFrom(t, s) ==
    LET a == RunEnd(t, s, "email_local") + 1
        d == RunEnd(t, a + 1, "email_domain")
        dots == {j \in (a + 2)..d :
                    /\ t[j] = "."
                    /\ j + 2 <= Len(t)
                    /\ IsLetter(t[j + 1])
                    /\ IsLetter(t[j + 2])}
    IN  IF a > s /\ a <= Len(t) /\ t[a] = "@" /\ dots # {}
        THEN RunEnd(t, MaxOf(dots) + 1, "letter")
        ELSE 0

\* EMAIL_REGEX.search(content).group(0), NoMatch when the search fails
email_match(t) ==
    LET starts == {s \in 1..Len(t) : EmailEndFrom(t, s) # 0}
    IN  IF starts = {} THEN NoMatch
        ELSE SubSeq(t, MinOf(starts), EmailEndFrom(t, MinOf(starts)))

\* \b before position i
WordBoundary(t, i) ==
    LET before == i - 1 >= 1 /\ i - 1 <= Len(t) /\ IsWordChar(t[i - 1])
        after == i >= 1 /\ i <= Len(t) /\ IsWordChar(t[i])
    IN  before # after

\* end of a match of 97[01]\d{7,9} at p, 0 when there is none
UaeNumberEndFrom(t, p) ==
    LET n == RunEnd(t, p + 3, "digit") - (p + 2)
    IN  IF /\ StartsWithAt(t, p, <<"9", "7">>)
           /\ p + 2 <= Len(t)
           /\ t[p + 2] \in {"0", "1"}
           /\ n >= PhoneUaeMin
        THEN p + 2 + (IF n > PhoneUaeMax THEN PhoneUaeMax ELSE n)
        ELSE 0

\* end of a match of \b\+?97[01]\d{7,9} at s, 0 when there is none
PhoneFirstEndFrom(t, s) ==
    IF ~WordBoundary(t, s) THEN 0
    ELSE IF t[s] = "+" THEN UaeNumberEndFrom(t, s + 1)
    ELSE UaeNumberEndFrom(t, s)

\* end of a match of \b\d{7,12}\b at s, 0 when there is none
PhoneSecondEndFrom(t, s) ==
    LET n == RunEnd(t, s, "digit") - (s - 1)
        lens == {l \in PhoneMin..PhoneMax : l <= n /\ WordBoundary(t, s + l)}
    IN  IF WordBoundary(t, s) /\ lens # {} THEN s + MaxOf(lens) - 1 ELSE 0

\* end of the match of PHONE_REGEX at s: the first alternative is tried first
PhoneEndFrom(t, s) ==
    IF PhoneFirstEndFrom(t, s) # 0 THEN PhoneFirstEndFrom(t, s) ELSE PhoneSecondEndFrom(t, s)

\* PHONE_REGEX.search(content).group(0), NoMatch when the search fails
phone_match(t) ==
    LET starts == {s \in 1..Len(t) : PhoneEndFrom(t, s) # 0}
    IN  IF starts = {} THEN NoMatch
        ELSE SubSeq(t, MinOf(starts), PhoneEndFrom(t, MinOf(starts)))

----------------------------------------------------------------------------
(* The messages a client may send *)

\* "Looking for a 2 bed apartment in Dubai Marina under 2.5m"
TextScenarioA ==
    <<"L","o","o","k","i","n","g"," ","f","o","r"," ","a"," ","2"," ","b","e","d"," ",
      "a","p","a","r","t","m","e","n","t"," ","i","n"," ","D","u","b","a","i"," ","M",
      "a","r","i","n","a"," ","u","n","d","e","r"," ","2",".","5","m">>

\* "3 bed"
TextBedOnly ==
    <<"3"," ","b","e","d">>

\* "budget 2m, 0 bed in jlt"
TextStudio ==
    <<"b","u","d","g","e","t"," ","2","m",","," ","0"," ","b","e","d"," ","i","n"," ",
      "j","l","t">>

\* "2.5m budget, 2 bed in jlt"
TextBudgetFirst ==
    <<"2",".","5","m"," ","b","u","d","g","e","t",","," ","2"," ","b","e","d"," ","i",
      "n"," ","j","l","t">>

\* "villa in downtown"
TextVilla ==
    <<"v","i","l","l","a"," ","i","n"," ","d","o","w","n","t","o","w","n">>

\* "call me at 0501234567"
TextPhone ==
    <<"c","a","l","l"," ","m","e"," ","a","t"," ","0","5","0","1","2","3","4","5","6",
      "7">>

\* "mail sara@x.ae"
TextEmail ==
    <<"m","a","i","l"," ","s","a","r","a","@","x",".","a","e">>

\* "available from 12.05.2024"
TextDate ==
    <<"a","v","a","i","l","a","b","l","e"," ","f","r","o","m"," ","1","2",".","0","5",
      ".","2","0","2","4">>

\* "hello"
TextHello ==
    <<"h","e","l","l","o">>


\* "  ": a message str.strip() leaves empty
TextBlank == <<" ", " ">>

\* a message longer than the echo of the fallback reply
TextLong == [i \in 1..(EchoLimit + 5) |-> IF i <= EchoLimit THEN "a" ELSE "z"]

\* "budget 2m in jlt"
TextBudgetArea ==
    <<"b","u","d","g","e","t"," ","2","m"," ","i","n"," ","j","l","t">>

\* what the client types in one turn
UserTexts ==
    {TextScenarioA, TextBedOnly, TextStudio, TextBudgetFirst, TextVilla, TextPhone,
     TextEmail, TextDate, TextHello, TextBlank, TextLong, TextBudgetArea}

----------------------------------------------------------------------------
(* What the regular expressions find in one message *)

\* the matches of one text: the four searches of _extract_preferences on the
\* lower-cased text, the two searches of _extract_lead on the text as typed
Analyse(text) ==
    [bedrooms |-> bedroom_match(Lower(text)),
     budget |-> budget_match(Lower(text)),
     locations |-> MatchedLocations(Lower(text)),
     property_type |-> MatchedPropertyType(Lower(text)),
     email |-> email_match(text),
     phone |-> phone_match(text)]

\* the matches of the messages a client may send, computed once
TextAnalysis == [text \in UserTexts |-> Analyse(text)]

\* the table of matches, held beside the program's state so that a search is
\* done once per text and looked up afterwards; no action changes it
VARIABLE searched

Analysis(text) == searched[text]

----------------------------------------------------------------------------
(* Preference extraction: _extract_preferences, _preferences_complete *)

\* float(...) raises ValueError inside _extract_preferences
extract_preferences_raises(text) ==
    LET m == Analysis(text).budget
    IN  m # NoMatch /\ ~FloatValid(BudgetDigits(m))

\* a plausible slip: the record is rebuilt from the text instead of merged
extract_preferences_replacing(text, existing) ==
    LET found == Analysis(text)
        p1 == IF found.bedrooms # NoMatch
              THEN Put(EmptyDict, "bedrooms", ParseInt(found.bedrooms)) ELSE EmptyDict
        p2 == IF found.locations # <<>>
              THEN Put(p1, "locations", found.locations) ELSE p1
    IN  p2

\* _extract_preferences(text, existing), when it does not raise
extract_preferences(text, existing) ==
    LET found == Analysis(text)
        p0 == existing
        p1 == IF found.bedrooms # NoMatch
              THEN Put(p0, "bedrooms", ParseInt(found.bedrooms)) ELSE p0
        p2 == IF found.budget # NoMatch
              THEN Put(p1, "budget_aed",
                       Scale(ParseFloat(BudgetDigits(found.budget)),
                             BudgetExponent(found.budget)))
              ELSE p1
        p3 == IF found.locations # <<>>
              THEN Put(p2, "locations", found.locations) ELSE p2
        p4 == IF found.property_type # NoMatch
              THEN Put(p3, "property_type", found.property_type) ELSE p3
    IN  p4

\* Python truthiness of the values a preference can hold
Truthy(d, k) ==
    /\ k \in DOMAIN d
    /\ CASE k = "bedrooms" -> d[k] # 0
         [] k = "budget_aed" -> d[k].m # 0
         [] OTHER -> d[k] # <<>>

\* _preferences_complete(preferences)
preferences_complete(preferences) ==
    /\ DOMAIN preferences # {}
    /\ Truthy(preferences, "bedrooms")
    /\ Truthy(preferences, "budget_aed")
    /\ Truthy(preferences, "locations")

----------------------------------------------------------------------------
(* Lead detection: _extract_lead *)

\* None, as _extract_lead returns it
NoLead == <<>>

\* the lead dict built from one qualifying message
LeadOf(content) ==
    LET found == Analysis(content)
        l0 == [source |-> "chat", notes |-> content]
        l1 == IF found.email # NoMatch THEN Put(l0, "email", found.email) ELSE l0
        l2 == IF found.phone # NoMatch THEN Put(l1, "phone", found.phone) ELSE l1
    IN  l2

Qualifies(msg) ==
    /\ msg.role = "user"
    /\ (Analysis(msg.content).email # NoMatch \/ Analysis(msg.content).phone # NoMatch)

\* a plausible slip: the scan runs oldest-first
extract_lead_oldest(messages) ==
    LET hits == {i \in 1..Len(messages) : Qualifies(messages[i])}
    IN  IF hits = {} THEN NoLead ELSE LeadOf(messages[MinOf(hits)].content)

\* _extract_lead(state), on state["messages"]: the newest qualifying user message
extract_lead(messages) ==
    LET hits == {i \in 1..Len(messages) : Qualifies(messages[i])}
    IN  IF hits = {} THEN NoLead ELSE LeadOf(messages[MaxOf(hits)].content)

----------------------------------------------------------------------------
(* Personas and the reply-generation capability: _invoke_persona *)

PersonaKeys == {"preference_elicitation", "bayut_search", "concierge_follow_up"}

\* Persona.name of DEFAULT_PERSONAS
PersonaName(key) ==
    CASE key = "preference_elicitation" -> "Preference Specialist"
      [] key = "bayut_search" -> "Bayut Scout"
      [] key = "concierge_follow_up" -> "Concierge"

\* the text a working model returns: its wording is not modelled
ModelReply == <<"(reply of the language model)">>

\* str(exc) of a failed llm.invoke
ModelError == "(model error)"

\* the content of the newest user message, "" when there is none
last_user(messages) ==
    LET users == {i \in 1..Len(messages) : messages[i].role = "user"}
    IN  IF users = {} THEN <<>> ELSE messages[MaxOf(users)].content

\* text[:n]
Prefix(text, n) == SubSeq(text, 1, IF Len(text) < n THEN Len(text) ELSE n)

\* the reply returned when llm is None
UnavailableReply(key, messages) ==
    <<"[", PersonaName(key),
      "] Unable to reach the language model. Based on the latest message, here is a heuristic response: ">>
    \o Prefix(last_user(messages), EchoLimit)

\* the reply returned when llm.invoke raises
ErrorReply(key, messages) ==
    <<"[", PersonaName(key), "] Encountered an error reaching the model (", ModelError,
      "). Here's a heuristic echo of your last message: ">>
    \o Prefix(last_user(messages), EchoLimit)

\* _invoke_persona(persona, state, llm, extra_system_context): llm is "None" or
\* "ChatOpenAI", outcome is what llm.invoke does ("reply" or "raise")
invoke_persona(key, messages, llm, outcome) ==
    IF llm = "None" THEN UnavailableReply(key, messages)
    ELSE IF outcome = "raise" THEN ErrorReply(key, messages)
    ELSE ModelReply

\* _append_message(state, role, content)
append_message(st, role, content) ==
    Put(st, "messages",
        Append(Get(st, "messages", <<>>), [role |-> role, content |-> content]))

----------------------------------------------------------------------------
(* The persona nodes *)

\* a plausible slip: the routing test of the elicitation node is inverted
preference_elicitation_node_inverted(st, llm, outcome) ==
    LET messages == Get(st, "messages", <<>>)
        users == {i \in 1..Len(messages) : messages[i].role = "user"}
        s1 == IF users # {}
              THEN Put(st, "preferences",
                       extract_preferences(messages[MaxOf(users)].content,
                                           Get(st, "preferences", EmptyDict)))
              ELSE st
        s2 == append_message(s1, "assistant",
                  invoke_persona("preference_elicitation", messages, llm, outcome))
    IN  Put(s2, "next_action",
            IF preferences_complete(Get(s2, "preferences", EmptyDict))
            THEN "end" ELSE "bayut_search")

\* _preference_elicitation_node(state, persona, llm), when extraction does not raise
preference_elicitation_node(st, llm, outcome) ==
    LET messages == Get(st, "messages", <<>>)
        users == {i \in 1..Len(messages) : messages[i].role = "user"}
        s1 == IF users # {}
              THEN Put(st, "preferences",
                       extract_preferences(messages[MaxOf(users)].content,
                                           Get(st, "preferences", EmptyDict)))
              ELSE st
        s2 == append_message(s1, "assistant",
                  invoke_persona("preference_elicitation", messages, llm, outcome))
    IN  Put(s2, "next_action",
            IF preferences_complete(Get(s2, "preferences", EmptyDict))
            THEN "bayut_search" ELSE "end")

\* the node raises: float() fails on the newest user message
preference_elicitation_raises(st) ==
    LET messages == Get(st, "messages", <<>>)
        users == {i \in 1..Len(messages) : messages[i].role = "user"}
    IN  users # {} /\ extract_preferences_raises(messages[MaxOf(users)].content)

\* the literal "Dubai Marina"
DefaultLocation == <<"D","u","b","a","i"," ","M","a","r","i","n","a">>

DefaultBudget == 2000000

DefaultBedrooms == 2

\* locations[:3]
MaxSuggestions == 3

\* the dict appended for locations[idx] (idx counted from 0)
Suggestion(idx, location, bedrooms, budget, property_type) ==
    [title |-> IntToChars(bedrooms) \o <<"-", "b", "e", "d", " ">> \o Title(property_type)
                   \o <<" ", "i", "n", " ">> \o Title(location),
     location |-> Title(location),
     price_aed |-> TruncScaled(budget, 10 - idx, 1),
     bedrooms |-> bedrooms,
     highlights |-> <<"Developer incentives available", "Proximity to metro">>]

\* _synthesise_listings(preferences)
synthesise_listings(preferences) ==
    LET locations == IF Truthy(preferences, "locations")
                     THEN preferences["locations"] ELSE <<DefaultLocation>>
        bedrooms == Get(preferences, "bedrooms", DefaultBedrooms)
        budget == Get(preferences, "budget_aed", Decimal(DefaultBudget, 0))
        property_type == Get(preferences, "property_type", PropertyTypes[1])
        suggestions == [i \in 1..(IF Len(locations) < MaxSuggestions
                                  THEN Len(locations) ELSE MaxSuggestions) |->
                           Suggestion(i - 1, locations[i], bedrooms, budget, property_type)]
    IN  IF suggestions # <<>> THEN suggestions
        ELSE <<[title |-> IntToChars(bedrooms) \o <<"-", "b", "e", "d", " ">>
                              \o Title(property_type) \o <<" ", "i", "n", " ">>
                              \o DefaultLocation,
                location |-> DefaultLocation,
                price_aed |-> TruncScaled(budget, 1, 0),
                bedrooms |-> bedrooms,
                highlights |-> <<"Sea view", "Walkable lifestyle">>]>>

\* a plausible slip: the search node always ends the turn
bayut_search_node_ending(st, llm, outcome) ==
    LET listings == synthesise_listings(Get(st, "preferences", EmptyDict))
        s1 == Put(st, "listings", listings)
        s2 == append_message(s1, "assistant",
                  invoke_persona("bayut_search", Get(s1, "messages", <<>>), llm, outcome))
    IN  Put(s2, "next_action", "end")

\* _bayut_search_node(state, persona, llm)
bayut_search_node(st, llm, outcome) ==
    LET listings == synthesise_listings(Get(st, "preferences", EmptyDict))
        s1 == Put(st, "listings", listings)
        s2 == append_message(s1, "assistant",
                  invoke_persona("bayut_search", Get(s1, "messages", <<>>), llm, outcome))
    IN  Put(s2, "next_action", IF listings # <<>> THEN "concierge_follow_up" ELSE "end")

\* state["feedback"] of an empty result
NoListingsFeedback == "No listings available for the provided preferences."

\* a plausible slip: the feedback note is attached whatever the listings
concierge_node_always_feedback(st, llm, outcome) ==
    LET s1 == append_message(st, "assistant",
                  invoke_persona("concierge_follow_up", Get(st, "messages", <<>>),
                                 llm, outcome))
        lead == extract_lead(Get(s1, "messages", <<>>))
        s2 == IF lead # NoLead THEN Put(s1, "lead", lead) ELSE s1
    IN  Put(Put(s2, "feedback", NoListingsFeedback), "next_action", "end")

\* _concierge_node(state, persona, llm)
concierge_node(st, llm, outcome) ==
    LET listings == Get(st, "listings", <<>>)
        s1 == append_message(st, "assistant",
                  invoke_persona("concierge_follow_up", Get(st, "messages", <<>>),
                                 llm, outcome))
        lead == extract_lead(Get(s1, "messages", <<>>))
        s2 == IF lead # NoLead THEN Put(s1, "lead", lead) ELSE s1
        s3 == IF listings = <<>> THEN Put(s2, "feedback", NoListingsFeedback) ELSE s2
    IN  Put(s3, "next_action", "end")

----------------------------------------------------------------------------
(* The graph: build_property_matcher_graph and its conditional edges *)

\* langgraph's END
END == "__end__"

Range(seq) == {seq[i] : i \in 1..Len(seq)}

\* the node order when agent_selection is None or empty
DefaultOrder == <<"preference_elicitation", "bayut_search", "concierge_follow_up">>

\* the keys of the personas the graph is built from
Selected(selection) == IF selection # <<>> THEN selection ELSE DefaultOrder

\* a plausible slip: the selection is not checked against the known personas
unknown_personas_unchecked(selection) == FALSE

\* `missing` is not empty: ValueError("Unknown personas requested: ...")
unknown_personas(selection) == selection # <<>> /\ Range(selection) \ PersonaKeys # {}

\* a plausible slip: the entry point is the persona selected last
entry_point_last(selection) == Selected(selection)[Len(Selected(selection))]

\* graph.set_entry_point(selected[0].key)
entry_point(selection) == Selected(selection)[1]

\* a plausible slip: the conditional edges are not remapped for unselected personas
route_unmapped(next_action, selection) ==
    IF next_action \in PersonaKeys THEN next_action ELSE END

\* the conditional edge taken after a node: _route_next(state) looked up in the
\* edge map, where a persona that is not selected maps to END
route(next_action, selection) ==
    IF next_action \in PersonaKeys /\ next_action \in Range(Selected(selection))
    THEN next_action
    ELSE END

----------------------------------------------------------------------------
(* The chat application: src/app.py *)

\* BUSINESS_CONTEXT, the fallback text of read_business_context
BUSINESS_CONTEXT == <<"NeuraEstate is a Dubai-based AI real estate concierge service.">>

\* initialise_state()
initialise_state ==
    [messages |-> <<[role |-> "system", content |-> BUSINESS_CONTEXT]>>,
     preferences |-> EmptyDict,
     next_action |-> "preference_elicitation",
     context |-> BUSINESS_CONTEXT]

\* str.strip() leaves nothing
IsBlank(text) == \A i \in 1..Len(text) : IsSpace(text[i])

\* _ensure_messages(conversation_state, context)
ensure_messages(st, context) ==
    LET messages == Get(st, "messages", <<>>)
    IN  IF (\A i \in 1..Len(messages) : messages[i].role # "system") /\ context # <<>>
        THEN Put(st, "messages", <<[role |-> "system", content |-> context]>> \o messages)
        ELSE Put(st, "messages", messages)

\* the state run_property_matcher hands to the compiled graph
prepared_state(conversation_state) ==
    LET s1 == ensure_messages(conversation_state, Get(conversation_state, "context", <<>>))
    IN  Put(s1, "next_action", Get(s1, "next_action", "preference_elicitation"))

\* the persona selections a caller may pass: one for each set of personas and
\* each entry point, and two that name a persona that does not exist
AgentSelections ==
    {<<>>,
     <<"preference_elicitation">>,
     <<"bayut_search">>,
     <<"concierge_follow_up">>,
     <<"preference_elicitation", "bayut_search">>,
     <<"bayut_search", "preference_elicitation">>,
     <<"preference_elicitation", "concierge_follow_up">>,
     <<"concierge_follow_up", "preference_elicitation">>,
     <<"bayut_search", "concierge_follow_up">>,
     <<"concierge_follow_up", "bayut_search">>,
     <<"preference_elicitation", "bayut_search", "concierge_follow_up">>,
     <<"bayut_search", "concierge_follow_up", "preference_elicitation">>,
     <<"concierge_follow_up", "preference_elicitation", "bayut_search">>,
     <<"mortgage_advisor">>,
     <<"preference_elicitation", "mortgage_advisor">>}

\* the model box of the chat page: empty, or a model name
ModelNames == {"", "gpt-4o-mini"}

\* the reply-generation capability: ChatOpenAI cannot be constructed
\* ("unconfigured"), or it is constructed and invoke replies or raises
Capabilities == {"unconfigured", "replies", "raises"}

----------------------------------------------------------------------------
(* JSON values as Python holds them: the raw listings of the Bayut API *)

\* None
Null == <<"null">>

\* a bool
B(b) == <<"bool", b>>

\* an int
N(n) == <<"int", n>>

\* a str, as its characters
S(chars) == <<"str", chars>>

\* a float, as its exact decimal
F(d) == <<"float", d>>

\* a dict, as the function of its keys
D(f) == <<"dict", f>>

\* a list
L(items) == <<"list", items>>

\* type(value), and the value held
Tag(value) == value[1]

Val(value) == value[2]

\* bool(value)
PyTruthy(value) ==
    CASE Tag(value) = "null" -> FALSE
      [] Tag(value) = "bool" -> Val(value)
      [] Tag(value) = "int" -> Val(value) # 0
      [] Tag(value) = "float" -> Val(value).m # 0
      [] Tag(value) = "str" -> Val(value) # <<>>
      [] Tag(value) = "dict" -> DOMAIN Val(value) # {}
      [] Tag(value) = "list" -> Val(value) # <<>>

\* a or b
Or(a, b) == IF PyTruthy(a) THEN a ELSE b

\* mapping.get(key)
PyGet(mapping, key) == IF key \in DOMAIN Val(mapping) THEN Val(mapping)[key] ELSE Null

\* mapping.get(key, default)
PyGetDefault(mapping, key, default) ==
    IF key \in DOMAIN Val(mapping) THEN Val(mapping)[key] ELSE default

\* str(value) of a str, an int that is not negative, a bool or None
PyStr(value) ==
    CASE Tag(value) = "str" -> Val(value)
      [] Tag(value) = "int" -> IntToChars(Val(value))
      [] Tag(value) = "bool" -> IF Val(value) THEN <<"T", "r", "u", "e">> ELSE <<"F", "a", "l", "s", "e">>
      [] Tag(value) = "null" -> <<"N", "o", "n", "e">>

----------------------------------------------------------------------------
(* BayutToolset._format_price *)

\* float(value) succeeds: an int, a bool, or a text of digits with at most one
\* point (the texts of the listings hold no sign, exponent or blank)
FloatAccepts(value) ==
    \/ Tag(value) \in {"int", "bool", "float"}
    \/ /\ Tag(value) = "str"
       /\ Filter(Val(value), "digit") # <<>>
       /\ Filter(Val(value), "digit_or_dot") = Val(value)
       /\ FloatValid(Val(value))

\* float(value)
FloatOf(value) ==
    CASE Tag(value) = "int" -> Decimal(Val(value), 0)
      [] Tag(value) = "float" -> Val(value)
      [] Tag(value) = "bool" -> Decimal(IF Val(value) THEN 1 ELSE 0, 0)
      [] Tag(value) = "str" -> ParseFloat(Val(value))

\* round(d) to an integer, halves to the even neighbour, as the format does
RoundHalfEven(d) ==
    LET unit == Pow10(d.e)
        whole == d.m \div unit
        rest == d.m % unit
    IN  IF 2 * rest > unit \/ (2 * rest = unit /\ whole % 2 = 1)
        THEN whole + 1 ELSE whole

\* the digits of n in groups of three: the "," of the format
RECURSIVE Grouped(_)
Grouped(n) ==
    IF n < 1000 THEN IntToChars(n)
    ELSE LET low == n % 1000
             pad == IF low < 10 THEN <<"0", "0">> ELSE IF low < 100 THEN <<"0">> ELSE <<>>
         IN  Grouped(n \div 1000) \o <<",">> \o pad \o IntToChars(low)

\* frequency.replace("_", " ")
RECURSIVE ReplaceUnderscores(_)
ReplaceUnderscores(text) ==
    IF text = <<>> THEN <<>>
    ELSE <<IF Head(text) = "_" THEN " " ELSE Head(text)>> \o ReplaceUnderscores(Tail(text))

\* _format_price raises: a frequency that is truthy and no str has no replace
format_price_raises(value, currency, frequency) ==
    /\ Tag(value) # "null"
    /\ FloatAccepts(value)
    /\ PyTruthy(frequency)
    /\ Tag(frequency) # "str"

\* _format_price(value, currency, frequency), when it does not raise
format_price(value, currency, frequency) ==
    IF Tag(value) = "null" THEN Null
    ELSE IF ~FloatAccepts(value) THEN S(PyStr(value))
    ELSE LET currency_code == IF PyTruthy(currency) THEN PyStr(currency) ELSE <<"A", "E", "D">>
             price == currency_code \o <<" ">> \o Grouped(RoundHalfEven(FloatOf(value)))
         IN  IF PyTruthy(frequency)
             THEN S(price \o <<" ", "/", " ">> \o ReplaceUnderscores(Val(frequency)))
             ELSE S(price)

----------------------------------------------------------------------------
(* BayutToolset._format_location and _extract_amenities *)

\* the separator of the location parts: the source file spells it with the
\* three characters U+00E2, U+20AC, U+00A2 between two blanks
LocationSeparator == <<" ", "U+00E2", "U+20AC", "U+00A2", " ">>

\* the first truthy value among the keys of a dict
RECURSIVE FirstOf(_, _)
FirstOf(mapping, keys) ==
    IF Len(keys) = 1 THEN PyGet(mapping, keys[1])
    ELSE Or(PyGet(mapping, keys[1]), FirstOf(mapping, Tail(keys)))

\* the texts a list contributes: of a dict its first truthy label, of a str itself
RECURSIVE Labels(_, _)
Labels(items, keys) ==
    IF items = <<>> THEN <<>>
    ELSE LET item == Head(items)
             label == IF Tag(item) = "dict" THEN FirstOf(item, keys) ELSE Null
             here == IF Tag(item) = "dict" /\ PyTruthy(label) THEN <<PyStr(label)>>
                     ELSE IF Tag(item) = "str" THEN <<Val(item)>>
                     ELSE <<>>
         IN  here \o Labels(Tail(items), keys)

\* " sep ".join(parts)
RECURSIVE Join(_, _)
Join(parts, sep) ==
    IF Len(parts) = 1 THEN parts[1]
    ELSE parts[1] \o sep \o Join(Tail(parts), sep)

\* _format_location(listing)
format_location(listing) ==
    LET location_tree == Or(Or(PyGet(listing, "location_tree"), PyGet(listing, "location")),
                            L(<<>>))
        names == <<"name", "location">>
        tree_parts ==
            IF Tag(location_tree) = "list" THEN Labels(Val(location_tree), names)
            ELSE IF Tag(location_tree) = "dict" /\ PyTruthy(FirstOf(location_tree, names))
            THEN <<PyStr(FirstOf(location_tree, names))>>
            ELSE <<>>
        textual == Or(PyGet(listing, "location_title"), PyGet(listing, "display_location"))
        parts == IF tree_parts = <<>> /\ PyTruthy(textual) THEN <<PyStr(textual)>>
                 ELSE tree_parts
    IN  IF parts # <<>> THEN S(Join(parts, LocationSeparator)) ELSE Null

\* _extract_amenities(listing)
extract_amenities(listing) ==
    LET amenities_raw == Or(Or(PyGet(listing, "amenities"), PyGet(listing, "amenity_labels")),
                            L(<<>>))
        labels == IF Tag(amenities_raw) = "list"
                  THEN Labels(Val(amenities_raw), <<"name", "label", "title">>)
                  ELSE <<>>
    IN  L([i \in 1..Len(labels) |-> S(labels[i])])

----------------------------------------------------------------------------
(* BayutToolset._extract_trucheck_status and _create_property_card *)

\* the status texts that count as verified
VerifiedStatuses == {<<"t", "r", "u", "c", "h", "e", "c", "k", "e", "d">>, <<"a", "p", "p", "r", "o", "v", "e", "d">>, <<"v", "e", "r", "i", "f", "i", "e", "d">>, <<"t", "r", "u", "e">>}

\* the texts of an alias field that count as verified
VerifiedAliasTexts == {<<"t", "r", "u", "e">>, <<"y", "e", "s">>, <<"a", "p", "p", "r", "o", "v", "e", "d">>, <<"v", "e", "r", "i", "f", "i", "e", "d">>}

\* the alias fields, in the order the code reads them
TrucheckAliases == <<"is_trucheck", "isTruChecked", "is_truchecked">>

\* the loop over the alias fields from position i: the first bool or str decides
RECURSIVE AliasVerdict(_, _)
AliasVerdict(listing, i) ==
    IF i > Len(TrucheckAliases) THEN FALSE
    ELSE LET value == PyGet(listing, TrucheckAliases[i])
         IN  IF Tag(value) = "bool" THEN Val(value)
             ELSE IF Tag(value) = "str" THEN Lower(Val(value)) \in VerifiedAliasTexts
             ELSE AliasVerdict(listing, i + 1)

\* _extract_trucheck_status(listing)
extract_trucheck_status(listing) ==
    LET verification == Or(PyGet(listing, "verification"), D(<<>>))
        status == IF Tag(verification) = "dict"
                  THEN Or(PyGet(verification, "status"), PyGet(verification, "state"))
                  ELSE Null
    IN  IF Tag(status) = "str" THEN Lower(Val(status)) \in VerifiedStatuses
        ELSE IF Tag(status) = "bool" THEN Val(status)
        ELSE AliasVerdict(listing, 1)

\* listing.get("price") or listing.get("price_value") or listing.get("list_price")
price_value_of(listing) == FirstOf(listing, <<"price", "price_value", "list_price">>)

\* listing.get("rent_frequency") or listing.get("frequency")
frequency_of(listing) == FirstOf(listing, <<"rent_frequency", "frequency">>)

\* listing.get("price_detail", {}) is read when neither currency field is truthy
ReadsPriceDetail(listing) ==
    ~PyTruthy(FirstOf(listing, <<"price_currency", "currency">>))

\* the currency of a listing, when reading it does not raise
currency_of(listing) ==
    IF ReadsPriceDetail(listing)
    THEN PyGet(PyGetDefault(listing, "price_detail", D(<<>>)), "currency")
    ELSE FirstOf(listing, <<"price_currency", "currency">>)

\* (listing.get("meta", {}) or {})
MetaOf(listing) == Or(PyGetDefault(listing, "meta", D(<<>>)), D(<<>>))

\* _create_property_card raises AttributeError: .get on a price_detail or a
\* meta that is no dict, or .replace on a frequency that is no str
create_property_card_raises(listing) ==
    \/ ReadsPriceDetail(listing)
       /\ Tag(PyGetDefault(listing, "price_detail", D(<<>>))) # "dict"
    \/ ~(ReadsPriceDetail(listing)
         /\ Tag(PyGetDefault(listing, "price_detail", D(<<>>))) # "dict")
       /\ format_price_raises(price_value_of(listing), currency_of(listing), frequency_of(listing))
    \/ Tag(MetaOf(listing)) # "dict"

\* the keys of a property card
CardFields ==
    {"id", "title", "price", "location", "bedrooms", "bathrooms", "size_sqft",
     "amenities", "is_trucheck", "url", "raw_reference"}

\* a plausible slip: the fields that resolve to None are left out of the card
create_property_card_sparse(listing) ==
    LET full == [id |-> FirstOf(listing, <<"id", "external_id", "reference">>),
                 title |-> FirstOf(listing, <<"title", "name">>),
                 price |-> format_price(price_value_of(listing), currency_of(listing),
                                        frequency_of(listing)),
                 location |-> format_location(listing),
                 bedrooms |-> FirstOf(listing, <<"rooms", "bedrooms">>),
                 bathrooms |-> FirstOf(listing, <<"baths", "bathrooms">>),
                 size_sqft |-> FirstOf(listing, <<"size", "area", "builtup_area">>),
                 amenities |-> extract_amenities(listing),
                 is_trucheck |-> B(extract_trucheck_status(listing)),
                 url |-> Or(PyGet(MetaOf(listing), "url"), PyGet(listing, "url")),
                 raw_reference |-> FirstOf(listing, <<"reference", "reference_number">>)]
    IN  [k \in {f \in CardFields : full[f] # Null} |-> full[k]]

\* _create_property_card(listing), when it does not raise
create_property_card(listing) ==
    [id |-> FirstOf(listing, <<"id", "external_id", "reference">>),
     title |-> FirstOf(listing, <<"title", "name">>),
     price |-> format_price(price_value_of(listing), currency_of(listing), frequency_of(listing)),
     location |-> format_location(listing),
     bedrooms |-> FirstOf(listing, <<"rooms", "bedrooms">>),
     bathrooms |-> FirstOf(listing, <<"baths", "bathrooms">>),
     size_sqft |-> FirstOf(listing, <<"size", "area", "builtup_area">>),
     amenities |-> extract_amenities(listing),
     is_trucheck |-> B(extract_trucheck_status(listing)),
     url |-> Or(PyGet(MetaOf(listing), "url"), PyGet(listing, "url")),
     raw_reference |-> FirstOf(listing, <<"reference", "reference_number">>)]

----------------------------------------------------------------------------
(* BayutToolset._normalise_cards *)

\* the listings the loop of _normalise_cards iterates over
listings_of(payload) ==
    LET data_section == Or(PyGet(payload, "data"), D(<<>>))
    IN  IF Tag(data_section) = "dict" /\ "results" \in DOMAIN Val(data_section)
        THEN Or(PyGetDefault(data_section, "results", L(<<>>)), L(<<>>))
        ELSE Or(Or(PyGet(payload, "results"), PyGet(payload, "hits")), L(<<>>))

----------------------------------------------------------------------------
(* Raw listings and payloads the Bayut API may answer with *)

\* the raw listings the normaliser is run on
RawListings ==
    LET
    \* a listing with every field in its first candidate
    ListingFull ==
        D([id |-> N(101), title |-> S(<<"M", "a", "r", "i", "n", "a", " ", "f", "l", "a", "t">>), price |-> N(1250000),
           price_currency |-> S(<<"A", "E", "D">>), rent_frequency |-> S(<<"p", "e", "r", "_", "y", "e", "a", "r">>),
           rooms |-> N(2), baths |-> N(3), size |-> N(1200),
           location_tree |-> L(<<D([name |-> S(<<"D", "u", "b", "a", "i">>)]), S(<<"M", "a", "r", "i", "n", "a">>)>>),
           amenities |-> L(<<S(<<"P", "o", "o", "l">>), D([label |-> S(<<"G", "y", "m">>)])>>),
           verification |-> D([status |-> S(<<"T", "r", "u", "C", "h", "e", "c", "k", "e", "d">>)]),
           meta |-> D([url |-> S(<<"u", "1">>)]), reference |-> S(<<"R", "1">>)])

    \* a listing with no field at all
    ListingEmpty == D(<<>>)

    \* fields in their later candidates, a price given as a text with a fraction
    ListingAliases ==
        D([external_id |-> N(7), name |-> S(<<"V", "i", "l", "l", "a">>), list_price |-> S(<<"8", "5", "0", "0", "0", ".", "5">>),
           currency |-> S(<<"U", "S", "D">>), bedrooms |-> N(4), bathrooms |-> N(5), area |-> N(3000),
           location_title |-> S(<<"J", "L", "T">>), url |-> S(<<"u", "2">>), reference_number |-> S(<<"R", "2">>),
           is_truchecked |-> S(<<"Y", "e", "s">>)])

    \* the nested price object is null
    ListingNullPriceDetail == D([id |-> N(102), price |-> N(5), price_detail |-> Null])

    \* meta holds a scalar
    ListingScalarMeta == D([id |-> N(103), meta |-> S(<<"x">>)])

    \* the frequency is a number
    ListingNumericFrequency == D([id |-> N(104), price |-> N(85000), frequency |-> N(12)])

    \* a studio: rooms is 0 and no other bedroom field is given
    ListingStudio == D([id |-> N(105), rooms |-> N(0), price |-> S(<<"P", "r", "i", "c", "e", " ", "o", "n", " ", "r", "e", "q", "u", "e", "s", "t">>)])

    \* rooms is 0 while a later candidate holds another value
    ListingZeroRooms == D([id |-> N(106), rooms |-> N(0), bedrooms |-> N(3), price |-> N(0)])

    \* a verification status that is not a verified one, beside a true alias field
    ListingPendingButFlagged ==
        D([id |-> N(107), verification |-> D([status |-> S(<<"p", "e", "n", "d", "i", "n", "g">>)]),
           is_trucheck |-> B(TRUE)])

    \* the first alias field is false, a later one true
    ListingSecondAlias ==
        D([id |-> N(108), is_trucheck |-> B(FALSE), isTruChecked |-> B(TRUE)])

    \* a verification state in capitals and no alias field
    ListingApproved == D([id |-> N(109), verification |-> D([state |-> S(<<"A", "P", "P", "R", "O", "V", "E", "D">>)])])
    IN
    {ListingFull, ListingEmpty, ListingAliases, ListingNullPriceDetail, ListingScalarMeta,
     ListingNumericFrequency, ListingStudio, ListingZeroRooms, ListingPendingButFlagged,
     ListingSecondAlias, ListingApproved}

\* the entries of a result list: listings, and entries that are no dict
RawEntries == RawListings \cup {S(<<"o", "o", "p", "s">>), Null}

\* the result lists of at most MaxBatch entries
Batches == UNION {[1..n -> RawEntries] : n \in 0..MaxBatch}

\* the payloads: the result list under data.results, under results or under hits
Payloads ==
    {D([data |-> D([results |-> L(b)])]) : b \in Batches}
    \cup {D([results |-> L(b)]) : b \in Batches}
    \cup {D([hits |-> L(b)]) : b \in Batches}

----------------------------------------------------------------------------
(* src/business_bot/tools/maps.py: _extract_coordinates *)

\* _extract_coordinates(listing): the pair (lat, lon) as floats, None when the
\* listing gives none.  The candidates are chained with "or", so a latitude or
\* longitude of 0 counts as not given.
extract_coordinates(listing) ==
    IF ~PyTruthy(listing) THEN Null
    ELSE
    LET geography == PyGet(listing, "geography")
        lat1 == IF Tag(geography) = "dict"
                THEN FirstOf(geography, <<"lat", "latitude">>) ELSE Null
        lon1 == IF Tag(geography) = "dict"
                THEN FirstOf(geography, <<"lng", "lon", "longitude">>) ELSE Null
        location == PyGet(listing, "location")
        second == (lat1 = Null \/ lon1 = Null) /\ Tag(location) = "dict"
        lat2 == IF second THEN Or(lat1, FirstOf(location, <<"lat", "latitude">>)) ELSE lat1
        lon2 == IF second THEN Or(lon1, FirstOf(location, <<"lon", "lng", "longitude">>))
                ELSE lon1
        coords == PyGet(listing, "coordinates")
        third == lat2 = Null \/ lon2 = Null
        pair == third /\ Tag(coords) = "list" /\ Len(Val(coords)) >= 2
        mapping == third /\ Tag(coords) = "dict"
        lat3 == IF pair THEN Or(lat2, Val(coords)[2])
                ELSE IF mapping THEN Or(lat2, FirstOf(coords, <<"lat", "latitude">>))
                ELSE lat2
        lon3 == IF pair THEN Or(lon2, Val(coords)[1])
                ELSE IF mapping THEN Or(lon2, FirstOf(coords, <<"lng", "lon", "longitude">>))
                ELSE lon2
    IN  IF lat3 = Null \/ lon3 = Null THEN Null
        ELSE IF FloatAccepts(lat3) /\ FloatAccepts(lon3)
        THEN <<"tuple", <<FloatOf(lat3), FloatOf(lon3)>>>>
        ELSE Null

----------------------------------------------------------------------------
(* The items, points of interest and provider responses of the map enricher *)

\* the recommendations handed to enrich_recommendations_with_maps
MapItems ==
    LET
    \* coordinates under geography, as floats
    ItemGeography ==
        D([id |-> N(201),
           geography |-> D([lat |-> F(Decimal(251, 1)), lng |-> F(Decimal(552, 1))])])
    \* coordinates under location, as texts, beside a geography without them
    ItemLocation ==
        D([id |-> N(202), geography |-> D(<<>>),
           location |-> D([latitude |-> S(<<"2", "5">>), longitude |-> S(<<"5", "5">>)])])
    \* coordinates as the list [lon, lat]
    ItemCoordinateList == D([id |-> N(203), coordinates |-> L(<<N(55), N(25)>>)])
    \* no coordinate field at all
    ItemNoCoordinates == D([id |-> N(204), title |-> S(<<"J", "L", "T">>)])
    \* a latitude that is no number
    ItemBadLatitude ==
        D([id |-> N(205), geography |-> D([lat |-> S(<<"n", "o", "r", "t", "h">>), lng |-> N(55)])])
    \* a listing on the equator
    ItemEquator == D([id |-> N(206), geography |-> D([lat |-> N(0), lng |-> N(55)])])
    IN
    {ItemGeography, ItemLocation, ItemCoordinateList, ItemNoCoordinates, ItemBadLatitude,
     ItemEquator, D(<<>>), S(<<"o", "o", "p", "s">>)}

\* the lists of recommendations of at most MaxBatch items
Recommendations == UNION {[1..n -> MapItems] : n \in 0..MaxBatch}

\* the points of interest of the caller: none, or one
PointsOfInterest ==
    {<<>>, <<[name |-> "Office", latitude |-> Decimal(252, 1), longitude |-> Decimal(553, 1)]>>}

\* settings.maps_provider and settings.mapbox_access_token
MapsProviders == {<<"M", "a", "p", "b", "o", "x">>, <<"n", "o", "n", "e">>}

MapboxTokens == {Null, S(<<"p", "k">>)}

\* requests.get raises a RequestException, or raise_for_status does
Unreachable == <<"RequestException">>

\* what the geocoding API answers: no answer, one feature, no feature, a body
\* that is no object
GeocodingResponses ==
    {Unreachable,
     D([features |-> L(<<D([place_name |-> S(<<"M", "a", "r", "i", "n", "a">>)])>>)]),
     D([features |-> L(<<>>)]),
     L(<<>>)}

\* what the matrix API answers: no answer, durations in seconds and distances
\* in metres from the listing, a body that is no object
MatrixResponses ==
    {Unreachable,
     D([durations |-> L(<<L(<<N(0), N(900)>>)>>), distances |-> L(<<L(<<N(0), N(10000)>>)>>)]),
     L(<<>>)}

\* the messages of maps.py and config.py
FallbackMessage ==
    S(<<"We're temporarily unable to load live map details. You'll still see the property information while we reconnect to the map service.">>)

MissingCoordinatesError == S(<<"Missing coordinates on listing; unable to plot on map.">>)

ProviderDisabledError == S(<<"Mapbox provider is disabled in configuration.">>)

MissingTokenError ==
    S(<<"Mapbox access token is required but was not provided. Set the MAPBOX_ACCESS_TOKEN environment variable.">>)

UnreachableError == S(<<"Unable to reach the map service at the moment.">>)

----------------------------------------------------------------------------
(* BayutToolset.search_properties and recommend_similar *)

\* a plausible slip: the entries that are None are sent as well
prepare_payload_keeps_none(preferences, filters) ==
    LET kept == {key \in DOMAIN preferences : filters = {} \/ key \in filters}
    IN  [key \in kept |-> preferences[key]]

\* _prepare_payload(preferences): the entries that are not None and, when the
\* API definition lists body properties, whose key is one of them
prepare_payload(preferences, filters) ==
    LET kept == {key \in DOMAIN preferences :
                    /\ preferences[key] # Null
                    /\ filters = {} \/ key \in filters}
    IN  [key \in kept |-> preferences[key]]

\* _prepare_query_parameters(page, language)
prepare_query_parameters(page, language, parameters) ==
    LET names == {name \in {"page", "langs"} :
                     /\ parameters = {} \/ name \in parameters
                     /\ IF name = "page" THEN page # Null ELSE PyTruthy(language)}
    IN  [name \in names |-> IF name = "page" THEN page ELSE language]

\* the call self._requests.post("/properties_search", params=params or None, json=body)
PostCall(body, params) ==
    [url |-> "/properties_search",
     params |-> IF DOMAIN params = {} THEN Null ELSE D(params),
     json |-> D(body)]

\* the preferences recommend_similar hands to search_properties
combined_preferences(anchor_property_id, preferences) ==
    LET given == IF DOMAIN preferences # {} THEN preferences ELSE <<>>
        first == IF "reference_ids" \in DOMAIN given THEN given
                 ELSE Put(given, "reference_ids", L(<<N(anchor_property_id)>>))
    IN  IF "similar_property_id" \in DOMAIN first THEN first
        ELSE Put(first, "similar_property_id", N(anchor_property_id))

\* a response of the API: the value its json() gives, NotJson when json()
\* raises, and its text
Response(body, text) == <<"response", [json |-> body, text |-> text]>>

NotJson == <<"JSONDecodeError">>

\* _coerce_json(response) raises: json() raised and the text is no JSON either
coerce_json_raises(response) ==
    /\ Tag(response) = "response"
    /\ Val(response).json = NotJson
    /\ Val(response).text # ""

\* _coerce_json(response): a dict is returned as it is, a response gives its
\* json(), and {} when json() raises on an empty text
coerce_json(response) ==
    IF Tag(response) = "dict" THEN response
    ELSE IF Val(response).json = NotJson THEN D(<<>>)
    ELSE Val(response).json

\* _normalise_cards(payload) raises: _create_property_card does on a listing
normalise_cards_raises(payload) ==
    \E i \in 1..Len(Val(listings_of(payload))) :
        /\ Tag(Val(listings_of(payload))[i]) = "dict"
        /\ create_property_card_raises(Val(listings_of(payload))[i])

\* the cards of the entries of a list that are dicts, in the order of the list
RECURSIVE CardsOf(_)
CardsOf(entries) ==
    IF entries = <<>> THEN <<>>
    ELSE (IF Tag(Head(entries)) = "dict" THEN <<create_property_card(Head(entries))>>
          ELSE <<>>) \o CardsOf(Tail(entries))

\* _normalise_cards(payload), when it returns
normalise_cards(payload) == CardsOf(Val(listings_of(payload)))

\* a plausible slip: the audit log is opened for writing, not for appending
persist_raw_truncating(log, endpoint, body, params, raw) ==
    <<[endpoint |-> endpoint, request |-> [payload |-> body, params |-> params],
       response |-> raw]>>

\* _persist_raw(endpoint, result): the audit log with the entry appended (the
\* timestamp of the entry is left out)
persist_raw(log, endpoint, body, params, raw) ==
    Append(log, [endpoint |-> endpoint, request |-> [payload |-> body, params |-> params],
                 response |-> raw])

\* the names of the tools of get_langchain_tools
ToolNames == <<"bayut_property_search", "bayut_recommend_similar">>

----------------------------------------------------------------------------
(* The callers, API definitions and responses of the Bayut toolset *)

\* the preferences of a caller
SearchPreferences ==
    {[purpose |-> S(<<"for-sale">>), price_min |-> N(1000000), unused |-> S(<<"skip">>)],
     [purpose |-> S(<<"for-rent">>), price_max |-> Null]}

\* page and language of a caller
PageAndLanguage == {<<Null, Null>>, <<N(2), S(<<"ar">>)>>}

\* the body properties the API definition lists: none when it has no schema
AllowedFilters == {{"purpose", "price_min", "price_max", "reference_ids"}, {}}

\* the query parameters the API definition lists
QueryParameters == {{"page", "langs"}, {"langs"}, {}}

\* what the API answers: one listing, one listing on which the normaliser
\* raises, a body that is no JSON with an empty text
SearchResponses ==
    {Response(D([hits |-> L(<<l>>)]), "json") :
         l \in {x \in RawListings : PyGet(x, "id") \in {N(105), N(102)}}}
    \cup {Response(NotJson, "")}

\* an entry an earlier process left in the audit log
EarlierEntry ==
    [endpoint |-> "properties_search",
     request |-> [payload |-> <<>>, params |-> <<>>], response |-> D(<<>>)]

\* the states the property-search graph is invoked with
GraphInputs ==
    {[preferences |-> p] : p \in {q \in SearchPreferences : "unused" \in DOMAIN q}}
    \cup {[available_tools |-> <<"custom_tool">>, raw_payloads |-> <<D(<<>>)>>], <<>>}

----------------------------------------------------------------------------
(* The recommendation workflow: its points of interest and its inputs *)

\* fallback_message of routing_node when the builder was given none
WorkflowFallbackMessage ==
    S(<<"We're working on the map information and will update it shortly.">>)

\* a PointOfInterest instance among the points of a state
Point(name, latitude, longitude) ==
    <<"PointOfInterest", [name |-> name, latitude |-> latitude, longitude |-> longitude]>>

\* _ensure_point(point) raises ValueError: the point is neither a
\* PointOfInterest nor a mapping whose latitude and longitude float() accepts
ensure_point_raises(point) ==
    /\ Tag(point) # "PointOfInterest"
    /\ ~(/\ Tag(point) = "dict"
         /\ FloatAccepts(PyGet(point, "latitude"))
         /\ FloatAccepts(PyGet(point, "longitude")))

\* _ensure_point(point), when it returns
ensure_point(point) ==
    IF Tag(point) = "PointOfInterest" THEN Val(point)
    ELSE [name |-> PyStr(PyGet(point, "name")),
          latitude |-> FloatOf(PyGet(point, "latitude")),
          longitude |-> FloatOf(PyGet(point, "longitude"))]

\* the loop of _resolve_points: the points _ensure_point accepts, in order
RECURSIVE Resolved(_)
Resolved(points) ==
    IF points = <<>> THEN <<>>
    ELSE (IF ensure_point_raises(Head(points)) THEN <<>>
          ELSE <<ensure_point(Head(points))>>) \o Resolved(Tail(points))

\* _resolve_points(state, None)
resolve_points(st) == Resolved(Get(st, "points_of_interest", <<>>))

\* the points of interest of the states the workflow is invoked with: a
\* mapping, a text, a mapping without a longitude and a PointOfInterest
StatePoints ==
    {<<D([name |-> S(<<"Office">>), latitude |-> S(<<"2", "5", ".", "2">>),
          longitude |-> F(Decimal(553, 1))]),
       S(<<"Mall">>),
       D([name |-> S(<<"Gym">>), latitude |-> N(25)]),
       Point(<<"Home">>, Decimal(251, 1), Decimal(551, 1))>>,
     <<S(<<"Mall">>)>>}

\* the states the workflow is invoked with
WorkflowInputs ==
    {[user_query |-> "marina"]}
    \cup {[user_query |-> "marina", points_of_interest |-> points] : points \in StatePoints}

\* what the fetch_bayut handler finds: a located listing, a listing without
\* coordinates, an entry that is no mapping
FetchedResults ==
    LET items == {x \in MapItems :
                     Tag(x) # "dict" \/ PyGet(x, "id") \in {N(201), N(204)}}
    IN  UNION {[1..n -> items] : n \in 0..MaxBatch}

----------------------------------------------------------------------------
(* State *)

VARIABLES
    state,            \* the conversation state the chat page keeps between turns
    agent_selection,  \* the personas ticked on the chat page
    model_name,       \* the model box of the chat page
    capability,       \* what the reply-generation capability does
    pc,               \* "idle", "called", "running", "finished" or "raised"
    work,             \* the state flowing through the graph during a run
    current,          \* the node the graph runs next
    llm,              \* the llm of the run: "None" or "ChatOpenAI"
    trace,            \* the personas run so far in this run, in order
    error,            \* the exception that ended the run, "" when none
    turn,             \* chat turns started so far
    leads_log,        \* customer_leads.jsonl
    feedback_log      \* customer_feedback.jsonl

\* the normaliser of the Bayut tool: one call of _normalise_cards after another
\* on the payload of one response
VARIABLES
    data,              \* the raw payload search_properties hands to _normalise_cards
    cards,             \* the cards appended so far by the running call
    cursor,            \* the position of the loop in the listings
    normaliser,        \* "idle", "looping", "returned" or "raised"
    normaliser_error,  \* the exception that ended the call, "" when none
    first_cards,       \* the cards the first call returned
    passes             \* calls of _normalise_cards started so far

bayut == <<data, cards, cursor, normaliser, normaliser_error, first_cards, passes>>

\* the map enricher: one call of enrich_recommendations_with_maps after another
\* on the same recommendations, under one configuration
VARIABLES
    maps_provider,        \* settings.maps_provider
    mapbox_access_token,  \* settings.mapbox_access_token
    recommendations,      \* the items handed to the enricher; it writes to them
    points_of_interest,   \* the points of interest handed to the enricher
    enriched,             \* the results appended so far by the running call
    item,                 \* the position of the loop in the recommendations
    enricher,             \* "idle", "looping", "returned" or "raised"
    enricher_error,       \* the exception that ended the call, "" when none
    at,                   \* the statement the running iteration is at
    locals,               \* lat, lon, geocoding, static_map, travel_times, error, fallback
    provider_log,         \* token lookups and provider requests of the running call
    map_calls,            \* calls of the enricher started so far
    fallback_message      \* the fallback_message the enricher was called with

maps == <<maps_provider, mapbox_access_token, recommendations, points_of_interest,
          enriched, item, enricher, enricher_error, at, locals, provider_log, map_calls,
          fallback_message>>

\* no call of the enricher is made
EnricherIdle ==
    /\ maps_provider = <<"m", "a", "p", "b", "o", "x">>
    /\ mapbox_access_token = Null
    /\ recommendations = <<>>
    /\ points_of_interest = <<>>
    /\ enriched = <<>>
    /\ item = 0
    /\ enricher = "idle"
    /\ enricher_error = ""
    /\ fallback_message = FallbackMessage
    /\ at = "coordinates"
    /\ locals = [lat |-> Null, lon |-> Null, geocoding |-> Null, static_map |-> Null,
                 travel_times |-> <<>>, error |-> Null, fallback |-> Null]
    /\ provider_log = <<>>
    /\ map_calls = 0

\* the Bayut toolset and the property-search graph built on it
VARIABLES
    allowed_filters,   \* self._allowed_filters
    query_parameters,  \* self._query_parameters
    calls,             \* the calls of self._requests.post, in order
    audit_log,         \* the entries of the audit log file
    search,            \* "idle", "posted", "returned" or "raised"
    caller,            \* "search_properties", "recommend_similar" or "graph"
    request,           \* preferences, body and params of the running call, and its response
    result,            \* the BayutSearchResult returned last
    searches,          \* calls of search_properties started so far
    graph_at,          \* the node the property-search graph runs next, "idle" when not invoked
    graph_input,       \* the state the graph was invoked with
    result_state,      \* result_state of CompiledGraph.invoke
    graph_trace        \* the nodes the invocation has run, in order

toolset == <<allowed_filters, query_parameters, calls, audit_log, search, caller, request,
             result, searches, graph_at, graph_input, result_state, graph_trace>>

\* the request and result of a toolset that was not called
NoRequest ==
    [preferences |-> <<>>, page |-> Null, language |-> Null, body |-> <<>>, params |-> <<>>,
     response |-> Null]

NoResult == [cards |-> <<>>, raw |-> Null, request_payload |-> <<>>, query_params |-> <<>>]

\* no call of the toolset is made
ToolsetIdle ==
    /\ allowed_filters = {}
    /\ query_parameters = {}
    /\ calls = <<>>
    /\ audit_log = <<>>
    /\ search = "idle"
    /\ caller = ""
    /\ request = NoRequest
    /\ result = NoResult
    /\ searches = 0
    /\ graph_at = "idle"
    /\ graph_input = <<>>
    /\ result_state = <<>>
    /\ graph_trace = <<>>

\* the recommendation workflow of src/business_bot/workflows/routing.py
VARIABLES
    fetch_bayut,      \* the bayut_results the fetch_bayut handler of the workflow puts in the state
    workflow_at,      \* the node the workflow runs next, "idle" when it is not invoked
    workflow_state,   \* the RecommendationState of the invocation
    workflow_trace    \* the nodes the invocation has run, in order

workflow == <<fetch_bayut, workflow_at, workflow_state, workflow_trace>>

\* the workflow is not invoked
WorkflowIdle ==
    /\ fetch_bayut = <<>>
    /\ workflow_at = "idle"
    /\ workflow_state = <<>>
    /\ workflow_trace = <<>>

\* the state of the tools of src/business_bot
tools == <<bayut, maps, toolset, workflow>>

\* no call of the normaliser is made
NormaliserIdle ==
    /\ data = D(<<>>)
    /\ cards = <<>>
    /\ cursor = 0
    /\ normaliser = "idle"
    /\ normaliser_error = ""
    /\ first_cards = <<>>
    /\ passes = 0

\* the state of the chat application
chat == <<state, agent_selection, model_name, capability, pc, work, current, llm,
          trace, error, turn, leads_log, feedback_log, searched>>

vars == <<chat, tools>>

\* what no action of the chat application changes
settings == <<agent_selection, model_name, capability, searched, tools>>

logs == <<leads_log, feedback_log>>

Init ==
    /\ searched = TextAnalysis
    /\ state = initialise_state
    /\ agent_selection \in AgentSelections
    /\ model_name \in ModelNames
    /\ capability \in Capabilities
    /\ pc = "idle"
    /\ work = EmptyDict
    /\ current = END
    /\ llm = "None"
    /\ trace = <<>>
    /\ error = ""
    /\ turn = 0
    /\ leads_log = <<>>
    /\ feedback_log = <<>>
    /\ NormaliserIdle
    /\ EnricherIdle
    /\ ToolsetIdle
    /\ WorkflowIdle

\* what llm.invoke does in this conversation
Outcome == IF capability = "raises" THEN "raise" ELSE "reply"

----------------------------------------------------------------------------
(* Actions *)

\* run_chat_turn, up to the call of run_property_matcher: a blank message
\* returns at once, any other is appended to the state's messages
ChatTurn(user_message) ==
    /\ pc = "idle"
    /\ turn < MaxTurns
    /\ IF IsBlank(user_message)
       THEN UNCHANGED vars
       ELSE /\ state' = Put(Put(state, "messages",
                                Append(Get(state, "messages", <<>>),
                                       [role |-> "user", content |-> user_message])),
                            "context", BUSINESS_CONTEXT)
            /\ pc' = "called"
            /\ turn' = turn + 1
            /\ trace' = <<>>
            /\ error' = ""
            /\ UNCHANGED <<settings, work, current, llm, logs>>

\* run_property_matcher, up to compiled.invoke: the llm is constructed and the
\* graph is built; either may raise
RunPropertyMatcher ==
    /\ pc = "called"
    /\ IF model_name # "" /\ capability = "unconfigured"
       THEN \* ChatOpenAI(model=model, ...) raises outside any try
            /\ pc' = "raised"
            /\ error' = "OpenAIError"
            /\ UNCHANGED <<work, current, llm>>
       ELSE IF unknown_personas(agent_selection)
       THEN /\ pc' = "raised"
            /\ error' = "ValueError: Unknown personas requested"
            /\ UNCHANGED <<work, current, llm>>
       ELSE /\ pc' = "running"
            /\ llm' = IF capability = "unconfigured" THEN "None" ELSE "ChatOpenAI"
            /\ work' = prepared_state(state)
            /\ current' = entry_point(agent_selection)
            /\ error' = ""
    /\ UNCHANGED <<state, settings, trace, turn, logs>>

\* where the graph goes after a node has returned
Advance(next_action) ==
    LET target == route(next_action, agent_selection)
    IN  /\ current' = target
        /\ pc' = IF target = END THEN "finished" ELSE "running"

\* the preference_elicitation node and its conditional edge
ElicitStep ==
    /\ pc = "running"
    /\ current = "preference_elicitation"
    /\ IF preference_elicitation_raises(work)
       THEN /\ pc' = "raised"
            /\ error' = "ValueError: could not convert string to float"
            /\ UNCHANGED <<work, current, trace>>
       ELSE /\ work' = preference_elicitation_node(work, llm, Outcome)
            /\ trace' = Append(trace, "preference_elicitation")
            /\ Advance(work'["next_action"])
            /\ UNCHANGED error
    /\ UNCHANGED <<state, settings, llm, turn, logs>>

\* the bayut_search node and its conditional edge
SearchStep ==
    /\ pc = "running"
    /\ current = "bayut_search"
    /\ work' = bayut_search_node(work, llm, Outcome)
    /\ trace' = Append(trace, "bayut_search")
    /\ Advance(work'["next_action"])
    /\ UNCHANGED <<state, settings, llm, error, turn, logs>>

\* the concierge_follow_up node and its conditional edge
ConciergeStep ==
    /\ pc = "running"
    /\ current = "concierge_follow_up"
    /\ work' = concierge_node(work, llm, Outcome)
    /\ trace' = Append(trace, "concierge_follow_up")
    /\ Advance(work'["next_action"])
    /\ UNCHANGED <<state, settings, llm, error, turn, logs>>

\* the return of run_property_matcher and the rest of run_chat_turn: the lead
\* and the feedback of the result are logged and the result becomes the state
ReturnTurn ==
    /\ pc = "finished"
    /\ leads_log' = IF Get(work, "lead", NoLead) # NoLead
                    THEN Append(leads_log, [timestamp |-> turn, lead |-> work["lead"]])
                    ELSE leads_log
    /\ feedback_log' = IF Has(work, "feedback")
                       THEN Append(feedback_log,
                                   [timestamp |-> turn, message |-> work["feedback"]])
                       ELSE feedback_log
    /\ state' = Put(work, "context", BUSINESS_CONTEXT)
    /\ pc' = "idle"
    /\ UNCHANGED <<settings, work, current, llm, trace, error, turn>>

\* the exception leaves run_chat_turn: nothing is logged, and the state keeps
\* the user message run_chat_turn had appended
AbortTurn ==
    /\ pc = "raised"
    /\ pc' = "idle"
    /\ UNCHANGED <<state, settings, work, current, llm, trace, error, turn, logs>>

\* reset_chat
ResetChat ==
    /\ pc = "idle"
    /\ state # initialise_state
    /\ state' = initialise_state
    /\ UNCHANGED <<settings, pc, work, current, llm, trace, error, turn, logs>>

Next ==
    \/ \E user_message \in UserTexts : ChatTurn(user_message)
    \/ RunPropertyMatcher
    \/ ElicitStep
    \/ SearchStep
    \/ ConciergeStep
    \/ ReturnTurn
    \/ AbortTurn
    \/ ResetChat

Spec == Init /\ [][Next]_vars

----------------------------------------------------------------------------
(* The Bayut normaliser: _normalise_cards, one iteration of its loop at a time *)

\* no chat turn is made: the conversation stays as initialise_state leaves it
ChatIdle ==
    /\ searched = <<>>
    /\ state = initialise_state
    /\ agent_selection = <<>>
    /\ model_name = ""
    /\ capability = "unconfigured"
    /\ pc = "idle"
    /\ work = EmptyDict
    /\ current = END
    /\ llm = "None"
    /\ trace = <<>>
    /\ error = ""
    /\ turn = 0
    /\ leads_log = <<>>
    /\ feedback_log = <<>>

InitBayut ==
    /\ ChatIdle
    /\ EnricherIdle
    /\ ToolsetIdle
    /\ WorkflowIdle
    /\ data \in Payloads
    /\ cards = <<>>
    /\ cursor = 0
    /\ normaliser = "idle"
    /\ normaliser_error = ""
    /\ first_cards = <<>>
    /\ passes = 0

\* the entries the loop iterates over
Listings == Val(listings_of(data))

\* _normalise_cards(data) is called, for the first time or again
NormaliseCards ==
    /\ normaliser \in {"idle", "returned", "raised"}
    /\ passes < MaxPasses
    /\ normaliser' = "looping"
    /\ cursor' = 1
    /\ cards' = <<>>
    /\ normaliser_error' = ""
    /\ passes' = passes + 1
    /\ UNCHANGED <<chat, maps, toolset, workflow, data, first_cards>>

\* one iteration: an entry that is no dict is skipped, any other is normalised
\* and its card appended, unless _create_property_card raises
CardStep ==
    /\ normaliser = "looping"
    /\ cursor <= Len(Listings)
    /\ LET listing == Listings[cursor]
       IN  IF Tag(listing) # "dict"
           THEN /\ cursor' = cursor + 1
                /\ UNCHANGED <<cards, normaliser, normaliser_error>>
           ELSE IF create_property_card_raises(listing)
           THEN /\ normaliser' = "raised"
                /\ normaliser_error' = "AttributeError"
                /\ UNCHANGED <<cards, cursor>>
           ELSE /\ cards' = Append(cards, create_property_card(listing))
                /\ cursor' = cursor + 1
                /\ UNCHANGED <<normaliser, normaliser_error>>
    /\ UNCHANGED <<chat, maps, toolset, workflow, data, first_cards, passes>>

\* the loop is exhausted: the cards are returned
NormaliseReturn ==
    /\ normaliser = "looping"
    /\ cursor > Len(Listings)
    /\ normaliser' = "returned"
    /\ first_cards' = IF passes = 1 THEN cards ELSE first_cards
    /\ UNCHANGED <<chat, maps, toolset, workflow, data, cards, cursor, normaliser_error, passes>>

NextBayut ==
    \/ NormaliseCards
    \/ CardStep
    \/ NormaliseReturn

SpecBayut == InitBayut /\ [][NextBayut]_vars

----------------------------------------------------------------------------
(* The map enricher: src/business_bot/tools/maps.py *)

\* _is_mapbox_enabled()
is_mapbox_enabled == Lower(maps_provider) = <<"m", "a", "p", "b", "o", "x">>

\* LOGGER.warning of a request that failed
RequestFailedWarning == "Mapbox request failed"

\* _request_mapbox(url, params) when the provider answers with response: the
\* payload, or the MapServiceUnavailable raised; log holds the token lookup,
\* the request made and the warning of a request that failed
request_mapbox(api, response) ==
    IF ~is_mapbox_enabled
    THEN [raises |-> "MapServiceUnavailable", message |-> ProviderDisabledError,
          payload |-> Null, log |-> <<>>]
    ELSE IF ~PyTruthy(mapbox_access_token)
    THEN [raises |-> "MapServiceUnavailable", message |-> MissingTokenError,
          payload |-> Null, log |-> <<"require_mapbox_token">>]
    ELSE IF response = Unreachable
    THEN [raises |-> "MapServiceUnavailable", message |-> UnreachableError,
          payload |-> Null, log |-> <<"require_mapbox_token", api, RequestFailedWarning>>]
    ELSE [raises |-> "", message |-> Null,
          payload |-> response, log |-> <<"require_mapbox_token", api>>]

\* geocode_listing_location(listing)
geocode_listing_location(listing, response) ==
    IF ~is_mapbox_enabled \/ extract_coordinates(listing) = Null
    THEN [value |-> Null, raises |-> "", log |-> <<>>]
    ELSE LET got == request_mapbox("geocoding", response)
         IN  IF got.raises # ""
             THEN [value |-> Null, raises |-> "", log |-> got.log]
             ELSE IF Tag(got.payload) # "dict"
             THEN [value |-> Null, raises |-> "AttributeError", log |-> got.log]
             ELSE LET features == Or(PyGet(got.payload, "features"), L(<<>>))
                  IN  [value |-> IF PyTruthy(features) THEN Val(features)[1] ELSE Null,
                       raises |-> "", log |-> got.log]

\* the URL generate_static_map_url builds, as the values it is built from
StaticMapUrl(latitude, longitude) ==
    <<"url", [style |-> "mapbox/streets-v12", marker |-> "pin-s-A+2F855A",
              longitude |-> longitude, latitude |-> latitude, zoom |-> 14,
              width |-> 640, height |-> 360, access_token |-> Val(mapbox_access_token)]>>

\* generate_static_map_url(latitude, longitude)
generate_static_map_url(latitude, longitude) ==
    IF ~is_mapbox_enabled
    THEN [value |-> Null, raises |-> "", message |-> Null, log |-> <<>>]
    ELSE IF ~PyTruthy(mapbox_access_token)
    THEN [value |-> Null, raises |-> "MapServiceUnavailable", message |-> MissingTokenError,
          log |-> <<"require_mapbox_token">>]
    ELSE [value |-> StaticMapUrl(latitude, longitude), raises |-> "", message |-> Null,
          log |-> <<"require_mapbox_token">>]

\* round(seconds / 60, 1) of a number of seconds that is no tie
RoundedMinutes(seconds) ==
    LET tenths == IF 2 * (seconds % 6) > 6 THEN seconds \div 6 + 1 ELSE seconds \div 6
    IN  F(Decimal(tenths, 1))

\* the entry of a matrix at row 0 and the column of the point of interest,
\* None when the matrix has no such entry
MatrixEntry(matrix, index) ==
    IF Len(Val(matrix)) > 0 /\ Len(Val(Val(matrix)[1])) > index
    THEN Val(Val(matrix)[1])[index + 1]
    ELSE Null

\* estimate_travel_times(latitude, longitude, points_of_interest)
estimate_travel_times(latitude, longitude, pois, response) ==
    IF ~is_mapbox_enabled \/ pois = <<>>
    THEN [value |-> <<>>, raises |-> "", log |-> <<>>]
    ELSE LET got == request_mapbox("directions-matrix", response)
         IN  IF got.raises # ""
             THEN [value |-> <<>>, raises |-> "", log |-> got.log]
             ELSE IF Tag(got.payload) # "dict"
             THEN [value |-> <<>>, raises |-> "AttributeError", log |-> got.log]
             ELSE LET durations == Or(PyGet(got.payload, "durations"), L(<<>>))
                      distances == Or(PyGet(got.payload, "distances"), L(<<>>))
                      Estimate(index) ==
                          LET raw_duration == MatrixEntry(durations, index)
                              raw_distance == MatrixEntry(distances, index)
                          IN  [name |-> pois[index].name,
                               distance_meters |-> raw_distance,
                               duration_minutes |->
                                   IF raw_duration = Null THEN Null
                                   ELSE RoundedMinutes(Val(raw_duration))]
                  IN  [value |-> [index \in 1..Len(pois) |-> Estimate(index)],
                       raises |-> "", log |-> got.log]

\* the listing the loop works on: the item, or a new dict when it is no mapping
ListingOf(entry) == IF Tag(entry) = "dict" THEN entry ELSE D(<<>>)

\* a plausible slip: the result of a listing without coordinates carries no error
missing_coordinates_silent(listing) ==
    [listing |-> listing, geocoding |-> Null, static_map_url |-> Null,
     travel_times |-> <<>>, fallback_message |-> fallback_message, error |-> Null]

\* the MapEnrichmentResult of a listing without coordinates
missing_coordinates_result(listing) ==
    [listing |-> listing, geocoding |-> Null, static_map_url |-> Null,
     travel_times |-> <<>>, fallback_message |-> fallback_message,
     error |-> MissingCoordinatesError]

\* listing.setdefault("map", {}) followed by listing_map.update(fields)
WithMap(listing, fields) ==
    LET old == IF "map" \in DOMAIN Val(listing) THEN Val(Val(listing)["map"]) ELSE <<>>
        new == [k \in DOMAIN old \cup DOMAIN fields |->
                    IF k \in DOMAIN fields THEN fields[k] ELSE old[k]]
    IN  D([k \in DOMAIN Val(listing) \cup {"map"} |->
              IF k = "map" THEN D(new) ELSE Val(listing)[k]])

\* the locals of an iteration before its first assignment
NoLocals ==
    [lat |-> Null, lon |-> Null, geocoding |-> Null, static_map |-> Null,
     travel_times |-> <<>>, error |-> Null, fallback |-> Null]

InitMaps ==
    /\ ChatIdle
    /\ NormaliserIdle
    /\ ToolsetIdle
    /\ WorkflowIdle
    /\ maps_provider \in MapsProviders
    /\ mapbox_access_token \in MapboxTokens
    /\ recommendations \in Recommendations
    /\ points_of_interest \in PointsOfInterest
    /\ enriched = <<>>
    /\ item = 0
    /\ enricher = "idle"
    /\ enricher_error = ""
    /\ fallback_message = FallbackMessage
    /\ at = "coordinates"
    /\ locals = NoLocals
    /\ provider_log = <<>>
    /\ map_calls = 0

\* what an iteration of the loop leaves alone
config ==
    <<maps_provider, mapbox_access_token, points_of_interest, map_calls, fallback_message>>

\* enrich_recommendations_with_maps(recommendations, points_of_interest) is
\* called, for the first time or again
EnrichRecommendations ==
    /\ enricher \in {"idle", "returned", "raised"}
    /\ map_calls < MaxPasses
    /\ enricher' = "looping"
    /\ item' = 1
    /\ enriched' = <<>>
    /\ enricher_error' = ""
    /\ at' = "coordinates"
    /\ locals' = NoLocals
    /\ provider_log' = <<>>
    /\ map_calls' = map_calls + 1
    /\ UNCHANGED <<chat, bayut, toolset, workflow, maps_provider, mapbox_access_token,
                   recommendations, points_of_interest, fallback_message>>

\* the head of an iteration: the coordinates of the listing are looked for; a
\* listing without them gets its result at once and the loop continues
CoordinatesStep ==
    /\ enricher = "looping"
    /\ item <= Len(recommendations)
    /\ at = "coordinates"
    /\ LET listing == ListingOf(recommendations[item])
           coordinates == extract_coordinates(listing)
       IN  IF coordinates = Null
           THEN /\ enriched' = Append(enriched, missing_coordinates_result(listing))
                /\ item' = item + 1
                /\ UNCHANGED <<at, locals>>
           ELSE /\ locals' = [NoLocals EXCEPT !.lat = F(Val(coordinates)[1]),
                                              !.lon = F(Val(coordinates)[2])]
                /\ at' = "geocoding"
                /\ UNCHANGED <<enriched, item>>
    /\ UNCHANGED <<chat, bayut, toolset, workflow, config, recommendations, enricher, enricher_error,
                   provider_log>>

\* geocoding = geocode_listing_location(listing), whatever the provider answers
GeocodingStep ==
    /\ enricher = "looping"
    /\ at = "geocoding"
    /\ \E response \in GeocodingResponses :
           LET got == geocode_listing_location(recommendations[item], response)
           IN  /\ provider_log' = provider_log \o got.log
               /\ IF got.raises # ""
                  THEN /\ enricher' = "raised"
                       /\ enricher_error' = got.raises
                       /\ UNCHANGED <<at, locals>>
                  ELSE /\ locals' = [locals EXCEPT
                                        !.geocoding = got.value,
                                        !.fallback = IF got.value = Null THEN fallback_message
                                                     ELSE Null]
                       /\ at' = "static_map"
                       /\ UNCHANGED <<enricher, enricher_error>>
    /\ UNCHANGED <<chat, bayut, toolset, workflow, config, recommendations, enriched, item>>

\* static_map = generate_static_map_url(lat, lon); a MapServiceUnavailable is
\* caught, and the travel times are then not asked for
StaticMapStep ==
    /\ enricher = "looping"
    /\ at = "static_map"
    /\ LET got == generate_static_map_url(Val(locals.lat), Val(locals.lon))
       IN  /\ provider_log' = provider_log \o got.log
           /\ IF got.raises # ""
              THEN /\ locals' = [locals EXCEPT !.error = got.message,
                                               !.fallback = fallback_message]
                   /\ at' = "update"
              ELSE /\ locals' = [locals EXCEPT !.static_map = got.value]
                   /\ at' = "travel_times"
    /\ UNCHANGED <<chat, bayut, toolset, workflow, config, recommendations, enriched, item, enricher,
                   enricher_error>>

\* travel_times = estimate_travel_times(lat, lon, points_of_interest), whatever
\* the provider answers
TravelTimesStep ==
    /\ enricher = "looping"
    /\ at = "travel_times"
    /\ \E response \in MatrixResponses :
           LET got == estimate_travel_times(Val(locals.lat), Val(locals.lon),
                                            points_of_interest, response)
           IN  /\ provider_log' = provider_log \o got.log
               /\ IF got.raises # ""
                  THEN /\ enricher' = "raised"
                       /\ enricher_error' = got.raises
                       /\ UNCHANGED <<at, locals>>
                  ELSE /\ locals' = [locals EXCEPT !.travel_times = got.value]
                       /\ at' = "update"
                       /\ UNCHANGED <<enricher, enricher_error>>
    /\ UNCHANGED <<chat, bayut, toolset, workflow, config, recommendations, enriched, item>>

\* the map data are written to the listing and the result is appended
UpdateStep ==
    /\ enricher = "looping"
    /\ at = "update"
    /\ LET estimates == locals.travel_times
           changed ==
               WithMap(recommendations[item],
                   [latitude |-> locals.lat, longitude |-> locals.lon,
                    geocoding |-> locals.geocoding, static_map_url |-> locals.static_map,
                    travel_times |-> L([i \in 1..Len(estimates) |-> D(estimates[i])]),
                    fallback_message |-> locals.fallback])
       IN  /\ recommendations' = [recommendations EXCEPT ![item] = changed]
           /\ enriched' = Append(enriched,
                              [listing |-> changed, geocoding |-> locals.geocoding,
                               static_map_url |-> locals.static_map,
                               travel_times |-> estimates,
                               fallback_message |-> locals.fallback, error |-> locals.error])
    /\ item' = item + 1
    /\ at' = "coordinates"
    /\ locals' = NoLocals
    /\ UNCHANGED <<chat, bayut, toolset, workflow, config, enricher, enricher_error, provider_log>>

\* the loop is exhausted: the results are returned
EnrichReturn ==
    /\ enricher = "looping"
    /\ item > Len(recommendations)
    /\ enricher' = "returned"
    /\ UNCHANGED <<chat, bayut, toolset, workflow, config, recommendations, enriched, item, enricher_error,
                   at, locals, provider_log>>

NextMaps ==
    \/ EnrichRecommendations
    \/ CoordinatesStep
    \/ GeocodingStep
    \/ StaticMapStep
    \/ TravelTimesStep
    \/ UpdateStep
    \/ EnrichReturn

SpecMaps == InitMaps /\ [][NextMaps]_vars

----------------------------------------------------------------------------
(* The Bayut toolset: search_properties, recommend_similar and the graph of
   src/business_bot/graph.py *)

InitSearch ==
    /\ ChatIdle
    /\ NormaliserIdle
    /\ EnricherIdle
    /\ WorkflowIdle
    /\ allowed_filters \in AllowedFilters
    /\ query_parameters \in QueryParameters
    /\ calls = <<>>
    /\ audit_log \in {<<>>, <<EarlierEntry>>}
    /\ search = "idle"
    /\ caller = ""
    /\ request = NoRequest
    /\ result = NoResult
    /\ searches = 0
    /\ graph_at = "idle"
    /\ graph_input = <<>>
    /\ result_state = <<>>
    /\ graph_trace = <<>>

\* what the calls of the toolset leave alone
definition == <<allowed_filters, query_parameters>>

graph == <<graph_at, graph_input, result_state, graph_trace>>

\* search_properties(preferences, page, language) up to the answer of the
\* API: body and params are prepared and posted
Post(by, preferences, page, language) ==
    /\ search \in {"idle", "returned", "raised"}
    /\ searches < MaxPasses
    /\ LET body == prepare_payload(preferences, allowed_filters)
           params == prepare_query_parameters(page, language, query_parameters)
       IN  /\ calls' = Append(calls, PostCall(body, params))
           /\ \E response \in SearchResponses :
                  request' = [preferences |-> preferences, page |-> page,
                              language |-> language, body |-> body, params |-> params,
                              response |-> response]
    /\ search' = "posted"
    /\ caller' = by
    /\ searches' = searches + 1
    /\ UNCHANGED <<chat, bayut, maps, workflow, definition, audit_log, result>>

\* a caller calls search_properties
SearchProperties ==
    /\ graph_at \in {"idle", "__end__", "raised"}
    /\ \E preferences \in SearchPreferences \cup {<<>>}, shape \in PageAndLanguage :
           Post("search_properties", preferences, shape[1], shape[2])
    /\ UNCHANGED graph

\* a caller calls recommend_similar for property 101, which calls search_properties
RecommendSimilar ==
    /\ graph_at \in {"idle", "__end__", "raised"}
    /\ \E preferences \in SearchPreferences :
           Post("recommend_similar", combined_preferences(101, preferences),
                Null, Null)
    /\ UNCHANGED graph

\* search_properties from the answer of the API on: the cards are normalised,
\* the raw payload is logged and the result returned, unless _coerce_json or
\* _normalise_cards raises
Receive ==
    /\ search = "posted"
    /\ IF coerce_json_raises(request.response)
          \/ normalise_cards_raises(coerce_json(request.response))
       THEN /\ search' = "raised"
            /\ UNCHANGED <<audit_log, result>>
       ELSE LET raw == coerce_json(request.response)
            IN  /\ result' = [cards |-> normalise_cards(raw), raw |-> raw,
                              request_payload |-> request.body,
                              query_params |-> request.params]
                /\ audit_log' = persist_raw(audit_log, "properties_search", request.body,
                                            request.params, raw)
                /\ search' = "returned"
    /\ UNCHANGED <<chat, bayut, maps, workflow, definition, calls, caller, request, searches, graph>>

\* compiled.invoke(state): result_state is a copy of the state, the entry
\* point is the node to run
GraphInvoke ==
    /\ graph_at \in {"idle", "__end__", "raised"}
    /\ search \in {"idle", "returned", "raised"}
    /\ searches < MaxPasses
    /\ \E state0 \in GraphInputs :
           /\ graph_input' = state0
           /\ result_state' = state0
    /\ graph_at' = "register_tools"
    /\ graph_trace' = <<>>
    /\ UNCHANGED <<chat, bayut, maps, workflow, definition, calls, audit_log, search, caller, request,
                   result, searches>>

\* _register_tools(state, tool_names)
register_tools(st, tool_names) ==
    LET named == IF "available_tools" \in DOMAIN st THEN st
                 ELSE Put(st, "available_tools", tool_names)
    IN  IF "preferences" \in DOMAIN named THEN named ELSE Put(named, "preferences", <<>>)

\* result_state.update(update) when the update is truthy
Updated(st, update) ==
    IF DOMAIN update = {} THEN st
    ELSE [key \in DOMAIN st \cup DOMAIN update |->
             IF key \in DOMAIN update THEN update[key] ELSE st[key]]

\* the node register_tools
RegisterToolsNode ==
    /\ graph_at = "register_tools"
    /\ result_state' = Updated(result_state, register_tools(result_state, ToolNames))
    /\ graph_at' = "bayut_search"
    /\ graph_trace' = Append(graph_trace, "register_tools")
    /\ UNCHANGED <<chat, bayut, maps, workflow, definition, calls, audit_log, search, caller, request,
                   result, searches, graph_input>>

\* the node bayut_search, up to the answer of the API
BayutSearchNode ==
    /\ graph_at = "bayut_search"
    /\ graph_trace[Len(graph_trace)] = "register_tools"
    /\ Post("graph", Get(result_state, "preferences", <<>>), Null, Null)
    /\ graph_trace' = Append(graph_trace, "bayut_search")
    /\ UNCHANGED <<graph_at, graph_input, result_state>>

\* _run_bayut_search(state, toolset) once search_properties returned
run_bayut_search(st, found) ==
    [preferences |-> Get(st, "preferences", <<>>),
     available_tools |-> Get(st, "available_tools", <<>>),
     property_cards |-> found.cards,
     raw_payloads |-> Append(Get(st, "raw_payloads", <<>>), found.raw),
     last_bayut_request |-> [payload |-> found.request_payload,
                             params |-> found.query_params]]

\* the node bayut_search once search_properties is over: the state is updated
\* and the invocation ends, or the exception leaves the invocation
BayutSearchReturn ==
    /\ graph_at = "bayut_search"
    /\ caller = "graph"
    /\ search \in {"returned", "raised"}
    /\ graph_trace[Len(graph_trace)] = "bayut_search"
    /\ IF search = "raised"
       THEN /\ graph_at' = "raised"
            /\ UNCHANGED result_state
       ELSE /\ result_state' = Updated(result_state, run_bayut_search(result_state, result))
            /\ graph_at' = "__end__"
    /\ UNCHANGED <<chat, bayut, maps, workflow, definition, calls, audit_log, search, caller, request,
                   result, searches, graph_input, graph_trace>>

NextSearch ==
    \/ SearchProperties
    \/ RecommendSimilar
    \/ Receive
    \/ GraphInvoke
    \/ RegisterToolsNode
    \/ BayutSearchNode
    \/ BayutSearchReturn

SpecSearch == InitSearch /\ [][NextSearch]_vars

----------------------------------------------------------------------------
(* The recommendation workflow: build_recommendation_workflow, with langgraph's
   edges START -> bayut -> routing -> respond -> END *)

InitWorkflow ==
    /\ ChatIdle
    /\ NormaliserIdle
    /\ ToolsetIdle
    /\ maps_provider \in MapsProviders
    /\ mapbox_access_token \in MapboxTokens
    /\ recommendations = <<>>
    /\ points_of_interest = <<>>
    /\ enriched = <<>>
    /\ item = 0
    /\ enricher = "idle"
    /\ enricher_error = ""
    /\ fallback_message = FallbackMessage
    /\ at = "coordinates"
    /\ locals = NoLocals
    /\ provider_log = <<>>
    /\ map_calls = 0
    /\ fetch_bayut \in FetchedResults
    /\ workflow_at = "idle"
    /\ workflow_state = <<>>
    /\ workflow_trace = <<>>

\* the workflow is invoked with a state
WorkflowInvoke ==
    /\ workflow_at \in {"idle", "__end__", "raised"}
    /\ map_calls < MaxPasses
    /\ workflow_state' \in WorkflowInputs
    /\ workflow_at' = "bayut"
    /\ workflow_trace' = <<>>
    /\ UNCHANGED <<chat, bayut, maps, toolset, fetch_bayut>>

\* the node bayut: the handler of the caller fetches the listings
FetchNode ==
    /\ workflow_at = "bayut"
    /\ workflow_state' = Put(workflow_state, "bayut_results", fetch_bayut)
    /\ workflow_at' = "routing"
    /\ workflow_trace' = Append(workflow_trace, "bayut")
    /\ UNCHANGED <<chat, bayut, maps, toolset, fetch_bayut>>

\* routing_node up to the call of enrich_recommendations_with_maps: the points
\* are resolved and the enricher is called on the state's bayut_results
RoutingNode ==
    /\ workflow_at = "routing"
    /\ workflow_trace[Len(workflow_trace)] = "bayut"
    /\ points_of_interest' = resolve_points(workflow_state)
    /\ recommendations' = Get(workflow_state, "bayut_results", <<>>)
    /\ fallback_message' = WorkflowFallbackMessage
    /\ enricher' = "looping"
    /\ item' = 1
    /\ enriched' = <<>>
    /\ enricher_error' = ""
    /\ at' = "coordinates"
    /\ locals' = NoLocals
    /\ provider_log' = <<>>
    /\ map_calls' = map_calls + 1
    /\ workflow_trace' = Append(workflow_trace, "routing")
    /\ UNCHANGED <<chat, bayut, toolset, maps_provider, mapbox_access_token, fetch_bayut,
                   workflow_at, workflow_state>>

\* notices[0] if notices else None
FirstNotice(results) ==
    LET with == {i \in 1..Len(results) : PyTruthy(results[i].fallback_message)}
    IN  IF with = {} THEN Null
        ELSE results[CHOOSE i \in with : \A j \in with : i <= j].fallback_message

\* routing_node once the enricher is over: the recommendations and the notice
\* are put in the state, or the exception of the enricher leaves the workflow
RoutingReturn ==
    /\ workflow_at = "routing"
    /\ workflow_trace[Len(workflow_trace)] = "routing"
    /\ enricher \in {"returned", "raised"}
    /\ IF enricher = "raised"
       THEN /\ workflow_at' = "raised"
            /\ UNCHANGED workflow_state
       ELSE /\ workflow_state' =
                  Put(Put(Put(workflow_state, "bayut_results", recommendations),
                          "recommendations",
                          [i \in 1..Len(enriched) |-> enriched[i].listing]),
                      "map_enrichment_notice", FirstNotice(enriched))
            /\ workflow_at' = "respond"
    /\ UNCHANGED <<chat, bayut, maps, toolset, fetch_bayut, workflow_trace>>

\* the node respond: the handler of the caller composes the response
RespondNode ==
    /\ workflow_at = "respond"
    /\ workflow_state' = Put(workflow_state, "response", "composed")
    /\ workflow_at' = "__end__"
    /\ workflow_trace' = Append(workflow_trace, "respond")
    /\ UNCHANGED <<chat, bayut, maps, toolset, fetch_bayut>>

NextWorkflow ==
    \/ WorkflowInvoke
    \/ FetchNode
    \/ RoutingNode
    \/ CoordinatesStep
    \/ GeocodingStep
    \/ StaticMapStep
    \/ TravelTimesStep
    \/ UpdateStep
    \/ EnrichReturn
    \/ RoutingReturn
    \/ RespondNode

SpecWorkflow == InitWorkflow /\ [][NextWorkflow]_vars

----------------------------------------------------------------------------
(* Vocabulary of the properties *)

Prefs(st) == Get(st, "preferences", EmptyDict)

Last(seq) == seq[Len(seq)]

\* the last node this run has executed is `key`: work is the state it returned
AfterStep(key) == trace # <<>> /\ Last(trace) = key

\* the node `key` executes in this transition
Takes(key) ==
    /\ pc = "running"
    /\ current = key
    /\ trace' = Append(trace, key)

\* the position of a persona in the order elicit, search, follow up
Rank(key) ==
    CASE key = "preference_elicitation" -> 1
      [] key = "bayut_search" -> 2
      [] key = "concierge_follow_up" -> 3
      [] OTHER -> 0

\* key k holds the same in p and q: absent in both, or present with one value
SameAt(k, p, q) ==
    /\ (k \in DOMAIN p) <=> (k \in DOMAIN q)
    /\ k \in DOMAIN p => p[k] = q[k]

HasUnknownKey == Range(agent_selection) \ PersonaKeys # {}

\* the reply the k-th step of this run appended
StepReply(k) ==
    LET messages == work["messages"]
    IN  messages[Len(messages) - Len(trace) + k]

\* a reply labelled with the persona's name that ends with the echo of text
IsLabelledFallback(content, key, text) ==
    /\ Len(content) >= 3
    /\ content[1] = "["
    /\ content[2] = PersonaName(key)
    /\ \E n \in 3..Len(content) :
           SubSeq(content, n + 1, Len(content)) = Prefix(text, EchoLimit)

----------------------------------------------------------------------------
(* Properties *)

\* C1: after the elicitation step the next action is Search exactly when
\* bedrooms, budget and at least one location are present in the preferences
\* (whatever their values, 0 included), and End otherwise.
C1_SearchIffPresent ==
    AfterStep("preference_elicitation") =>
        LET present == /\ {"bedrooms", "budget_aed", "locations"} \subseteq DOMAIN Prefs(work)
                       /\ Prefs(work)["locations"] # <<>>
        IN  work["next_action"] = IF present THEN "bayut_search" ELSE "end"

\* C2: when the reply-generation capability cannot be constructed or raises
\* when invoked, the run does not abort on it, and every step has appended an
\* assistant message labelled with its persona's name that echoes the first
\* 280 characters of the latest user message.
C2_FallbackNeverAborts ==
    capability \in {"unconfigured", "raises"} =>
        /\ ~(pc = "raised" /\ error = "OpenAIError")
        /\ \A k \in 1..Len(trace) :
               /\ StepReply(k).role = "assistant"
               /\ IsLabelledFallback(StepReply(k).content, trace[k],
                                     last_user(work["messages"]))

\* C3: after the search step the listings it produced from the preferences are
\* in the state, and the next action is FollowUp when there is at least one
\* listing and End when there is none.
C3_SearchAttachesAndRoutes ==
    AfterStep("bayut_search") =>
        /\ Has(work, "listings")
        /\ work["listings"] = synthesise_listings(Prefs(work))
        /\ work["next_action"] =
               IF work["listings"] # <<>> THEN "concierge_follow_up" ELSE "end"

C3_Witness ==
    /\ AfterStep("bayut_search")
    /\ Len(work["listings"]) >= 1
    /\ work["next_action"] = "concierge_follow_up"

\* C4: the follow-up step always sets the next action to End; it sets the lead
\* to what the lead detector finds in the message history and leaves the lead as
\* it was when the detector finds none; it sets the empty-result feedback note
\* when the state holds no listings and leaves the feedback as it was otherwise.
C4_FollowUpEffects ==
    [][Takes("concierge_follow_up") =>
        LET found == extract_lead(work'["messages"])
        IN  /\ work'["next_action"] = "end"
            /\ found # NoLead => Has(work', "lead") /\ work'["lead"] = found
            /\ found = NoLead => SameAt("lead", work, work')
            /\ Get(work, "listings", <<>>) = <<>> =>
                   Has(work', "feedback") /\ work'["feedback"] = NoListingsFeedback
            /\ Get(work, "listings", <<>>) # <<>> => SameAt("feedback", work, work')
      ]_vars

C4_Witness ==
    /\ AfterStep("concierge_follow_up")
    /\ Has(work, "lead")
    /\ Has(work, "listings")
    /\ ~Has(work, "feedback")
    /\ work["next_action"] = "end"

\* C5: a run of the graph executes its personas in the order elicit, search,
\* follow up, each at most once, never routes back, and ends at End: no run
\* of the compiled graph ends in an exception.
C5_RunReachesEnd ==
    /\ \A i, j \in 1..Len(trace) : i < j => Rank(trace[i]) < Rank(trace[j])
    /\ pc = "running" /\ trace # <<>> => Rank(current) > Rank(Last(trace))
    /\ pc = "raised" =>
           error \in {"OpenAIError", "ValueError: Unknown personas requested"}

\* C6: only selected personas run, and a routing decision that names an
\* unselected persona ends the run.
C6_UnselectedRemappedToEnd ==
    /\ Range(trace) \subseteq Range(Selected(agent_selection))
    /\ pc = "running" => current \in Range(Selected(agent_selection))
    /\ (/\ trace # <<>>
        /\ work["next_action"] \in PersonaKeys \ Range(Selected(agent_selection)))
       => pc \in {"finished", "idle"} /\ current = END

C6_Witness ==
    /\ trace = <<"preference_elicitation">>
    /\ work["next_action"] = "bayut_search"
    /\ "bayut_search" \notin Range(Selected(agent_selection))
    /\ pc = "finished"

\* C7: with an unknown key in the persona selection the run fails before any
\* persona step: no node runs, no assistant message is ever appended, and the
\* call raises leaving the conversation state it was handed unchanged (the
\* error is the unknown-persona ValueError unless constructing the llm for a
\* named model has already raised).
C7_UnknownPersonaFailsFast ==
    /\ [](HasUnknownKey =>
            /\ trace = <<>>
            /\ pc \notin {"running", "finished"}
            /\ \A i \in 1..Len(state["messages"]) :
                   state["messages"][i].role # "assistant")
    /\ [][(pc = "called" /\ HasUnknownKey) =>
            /\ pc' = "raised"
            /\ state' = state
            /\ error' = IF model_name # "" /\ capability = "unconfigured"
                        THEN "OpenAIError"
                        ELSE "ValueError: Unknown personas requested"
         ]_vars

C7_Witness ==
    /\ HasUnknownKey
    /\ pc = "raised"
    /\ error = "ValueError: Unknown personas requested"
    /\ trace = <<>>
    /\ last_user(state["messages"]) # <<>>

\* the only number the text holds is the bedroom count its "<N> bed" names
OnlyBedroomCount(text) ==
    /\ Analysis(text).bedrooms # NoMatch
    /\ Len(Filter(text, "digit")) = Len(Analysis(text).bedrooms)

\* C8: when the newest user message contains "<N> bed", the elicitation step
\* sets bedrooms to N and keeps the locations and the property type the message
\* does not name; when the message mentions only a bedroom count (it holds no
\* other number, as in "3 bed"), a budget captured before is left unchanged.
C8_BedroomsKeepBudget ==
    [][(Takes("preference_elicitation")
        /\ Analysis(last_user(work["messages"])).bedrooms # NoMatch) =>
        LET text == last_user(work["messages"])
            found == Analysis(text)
        IN  /\ Prefs(work')["bedrooms"] = ParseInt(found.bedrooms)
            /\ (OnlyBedroomCount(text) /\ Has(Prefs(work), "budget_aed")) =>
                   Prefs(work')["budget_aed"] = Prefs(work)["budget_aed"]
            /\ found.locations = <<>> => SameAt("locations", Prefs(work), Prefs(work'))
            /\ found.property_type = NoMatch =>
                   SameAt("property_type", Prefs(work), Prefs(work'))
      ]_vars

\* the searches of _extract_preferences find something for key k in the text
HasPattern(k, text) ==
    CASE k = "bedrooms" -> Analysis(text).bedrooms # NoMatch
      [] k = "budget_aed" -> Analysis(text).budget # NoMatch
      [] k = "locations" -> Analysis(text).locations # <<>>
      [] k = "property_type" -> Analysis(text).property_type # NoMatch

PreferenceKeys == {"bedrooms", "budget_aed", "locations", "property_type"}

\* C9: the preference merge is monotonic through a conversation: no step of a
\* run and no turn removes a preference key, a run starts from the preferences
\* of the conversation and hands its own back, and an elicitation step leaves
\* every key for which its message holds no pattern as it was.
C9_MonotonicMerge ==
    [][/\ pc = "running" => DOMAIN Prefs(work) \subseteq DOMAIN Prefs(work')
       /\ (pc = "called" /\ pc' = "running") => Prefs(work') = Prefs(state)
       /\ (pc = "finished" /\ pc' = "idle") => Prefs(state') = Prefs(work)
       /\ ~(pc = "idle" /\ pc' = "idle") =>
              DOMAIN Prefs(state) \subseteq DOMAIN Prefs(state')
       /\ Takes("preference_elicitation") =>
              \A k \in PreferenceKeys :
                  ~HasPattern(k, last_user(work["messages"])) =>
                      SameAt(k, Prefs(work), Prefs(work'))
      ]_vars

C9_Witness ==
    /\ AfterStep("preference_elicitation")
    /\ turn = 2
    /\ last_user(work["messages"]) = TextVilla
    /\ {"bedrooms", "budget_aed", "locations", "property_type"} \subseteq DOMAIN Prefs(work)
    /\ Prefs(work)["bedrooms"] = 2
    /\ Prefs(work)["budget_aed"] = Decimal(2500000, 0)

\* C10: a first message "Looking for a 2 bed apartment in Dubai Marina under
\* 2.5m" yields bedrooms 2, type apartment, location dubai marina and budget
\* 2500000, and routes to Search.
C10_ScenarioA ==
    (/\ AfterStep("preference_elicitation")
     /\ turn = 1
     /\ last_user(work["messages"]) = TextScenarioA) =>
        /\ Prefs(work) = [bedrooms |-> 2,
                          property_type |-> PropertyTypes[1],
                          locations |-> <<Gazetteer[1]>>,
                          budget_aed |-> Decimal(2500000, 0)]
        /\ work["next_action"] = "bayut_search"

\* the positions of the user messages that hold an email or a phone pattern
ContactMessages(messages) ==
    {i \in 1..Len(messages) :
        /\ messages[i].role = "user"
        /\ (Analysis(messages[i].content).email # NoMatch
            \/ Analysis(messages[i].content).phone # NoMatch)}

\* C11: the lead detector returns none when no user message holds an email or
\* a phone pattern; otherwise its lead is built from the newest such user
\* message alone: source "chat", notes the whole text of that message, email
\* and phone exactly those found in that message, and nothing else; the
\* follow-up step stores that lead in the state.
C11_LeadFromNewestOnly ==
    LET messages == Get(work, "messages", <<>>)
        lead == extract_lead(messages)
        hits == ContactMessages(messages)
    IN  IF hits = {} THEN lead = NoLead
        ELSE LET content == messages[MaxOf(hits)].content
                 found == Analysis(content)
             IN  /\ DOMAIN lead \subseteq {"source", "notes", "email", "phone"}
                 /\ lead["source"] = "chat"
                 /\ lead["notes"] = content
                 /\ Has(lead, "email") <=> found.email # NoMatch
                 /\ Has(lead, "email") => lead["email"] = found.email
                 /\ Has(lead, "phone") <=> found.phone # NoMatch
                 /\ Has(lead, "phone") => lead["phone"] = found.phone
                 /\ AfterStep("concierge_follow_up") => work["lead"] = lead

C11_Witness ==
    /\ AfterStep("concierge_follow_up")
    /\ \E i, j \in ContactMessages(work["messages"]) :
           /\ i < j
           /\ work["messages"][i].content = TextPhone
           /\ work["messages"][j].content = TextEmail
    /\ Has(work["lead"], "email")
    /\ ~Has(work["lead"], "phone")

\* C12: once the follow-up step has run in a conversation whose history holds
\* the user message "call me at 0501234567" at any position, the lead of the
\* state carries the phone number 0501234567.
C12_PhoneAnywhereInHistory ==
    (/\ AfterStep("concierge_follow_up")
     /\ \E i \in 1..Len(work["messages"]) :
            /\ work["messages"][i].role = "user"
            /\ work["messages"][i].content = TextPhone) =>
        /\ Has(work, "lead")
        /\ Has(work["lead"], "phone")
        /\ work["lead"]["phone"] = <<"0","5","0","1","2","3","4","5","6","7">>

\* the messages of the state before a step are kept, in order, by the step
KeepsMessages(before, after) ==
    /\ Len(after) = Len(before) + 1
    /\ SubSeq(after, 1, Len(before)) = before
    /\ after[Len(after)].role = "assistant"

----------------------------------------------------------------------------
(* Properties of the Bayut normaliser *)

\* the loop has just handled a listing that is a dict and appended its card
CardAppended ==
    /\ normaliser \in {"looping", "returned"}
    /\ cursor > 1
    /\ Tag(Listings[cursor - 1]) = "dict"

\* the listing whose card is the last of cards
LastListing == Listings[cursor - 1]

\* the source fields a card field is taken from, in their priority order
FieldCandidates ==
    [id |-> <<"id", "external_id", "reference">>,
     title |-> <<"title", "name">>,
     price |-> <<"price", "price_value", "list_price">>,
     bedrooms |-> <<"rooms", "bedrooms">>,
     bathrooms |-> <<"baths", "bathrooms">>,
     size_sqft |-> <<"size", "area", "builtup_area">>,
     raw_reference |-> <<"reference", "reference_number">>]

\* the candidate values of the url: meta.url when meta is a dict, then url
UrlCandidates(listing) ==
    <<IF Tag(PyGet(listing, "meta")) = "dict" THEN PyGet(PyGet(listing, "meta"), "url")
      ELSE Null,
      PyGet(listing, "url")>>

\* the first value of a sequence that is not None, None when there is none
RECURSIVE FirstNonNull(_)
FirstNonNull(values) ==
    IF values = <<>> THEN Null
    ELSE IF Head(values) # Null THEN Head(values)
    ELSE FirstNonNull(Tail(values))

\* the values a listing holds under a sequence of keys
ValuesAt(listing, keys) == [i \in 1..Len(keys) |-> PyGet(listing, keys[i])]

\* C15: normalising a listing never raises, and a card field none of whose
\* source fields is given comes out as null, the amenities as an empty list
\* and the verified flag as false.
C15_NormaliseNeverRaises ==
    /\ normaliser # "raised"
    /\ CardAppended =>
           /\ \A f \in DOMAIN FieldCandidates :
                  FirstNonNull(ValuesAt(LastListing, FieldCandidates[f])) = Null =>
                      Last(cards)[f] = Null
           /\ FirstNonNull(UrlCandidates(LastListing)) = Null => Last(cards)["url"] = Null
           /\ DOMAIN Val(LastListing) = {} =>
                  /\ Last(cards)["location"] = Null
                  /\ Last(cards)["amenities"] = L(<<>>)
                  /\ Last(cards)["is_trucheck"] = B(FALSE)

\* a listing that is a dict and that _create_property_card turns into a card
WellFormed(listing) == Tag(listing) = "dict" /\ ~create_property_card_raises(listing)

\* the cards of the well-formed listings of a list, in the order of the list
RECURSIVE CardsOfWellFormed(_)
CardsOfWellFormed(entries) ==
    IF entries = <<>> THEN <<>>
    ELSE (IF WellFormed(Head(entries)) THEN <<create_property_card(Head(entries))>>
          ELSE <<>>) \o CardsOfWellFormed(Tail(entries))

\* C16: a call of the normaliser on a batch ends by returning, with the card of
\* every well-formed listing of the batch, in the order of the listings,
\* whatever the other entries of the batch are.
C16_BatchIsolation ==
    normaliser \in {"returned", "raised"} =>
        /\ normaliser = "returned"
        /\ cards = CardsOfWellFormed(Listings)

\* the nested verification status is a text that names a verified status
StatusVerified(listing) ==
    LET verification == PyGet(listing, "verification")
    IN  /\ Tag(verification) = "dict"
        /\ \E k \in {"status", "state"} :
               /\ Tag(PyGet(verification, k)) = "str"
               /\ Lower(Val(PyGet(verification, k))) \in VerifiedStatuses

\* one of the alias fields is true, or a text that stands for true
AliasVerified(listing) ==
    \E i \in 1..Len(TrucheckAliases) :
        LET value == PyGet(listing, TrucheckAliases[i])
        IN  \/ value = B(TRUE)
            \/ Tag(value) = "str" /\ Lower(Val(value)) \in VerifiedAliasTexts

\* C17: the verified flag of a card is true exactly when the nested
\* verification status of its listing is one of truchecked, approved, verified,
\* true (in any case) or at least one alias field is true or one of "true",
\* "yes", "approved", "verified".
C17_VerifiedFlag ==
    CardAppended =>
        Last(cards)["is_trucheck"] =
            B(StatusVerified(LastListing) \/ AliasVerified(LastListing))

\* C18: a multi-source field of a card holds the first value, in the priority
\* order of its source fields, that is not null, a 0 included; the price, which
\* the card holds formatted, is null only when every price field is null.
C18_FirstNonNullCandidate ==
    CardAppended =>
        /\ \A f \in DOMAIN FieldCandidates \ {"price"} :
               Last(cards)[f] = FirstNonNull(ValuesAt(LastListing, FieldCandidates[f]))
        /\ Last(cards)["url"] = FirstNonNull(UrlCandidates(LastListing))
        /\ Last(cards)["price"] = Null <=>
               FirstNonNull(ValuesAt(LastListing, FieldCandidates["price"])) = Null

----------------------------------------------------------------------------
(* Properties of the map enricher *)

\* C20: an iteration of the enricher on a listing from which no coordinates are
\* resolved appends a result with no geocoding, no static map and no travel
\* estimate, with a fallback notice and the "missing coordinates" error; it
\* makes no token lookup and no provider request, and leaves the listing as it
\* was, without map data.
C20_MissingCoordinates ==
    [][(/\ enricher = "looping"
        /\ at = "coordinates"
        /\ item <= Len(recommendations)
        /\ extract_coordinates(ListingOf(recommendations[item])) = Null)
       => /\ enricher' = "looping"
          /\ enriched' = Append(enriched, Last(enriched'))
          /\ Last(enriched').listing = ListingOf(recommendations[item])
          /\ "map" \notin DOMAIN Val(Last(enriched').listing)
          /\ Last(enriched').geocoding = Null
          /\ Last(enriched').static_map_url = Null
          /\ Last(enriched').travel_times = <<>>
          /\ Last(enriched').fallback_message # Null
          /\ Last(enriched').error = MissingCoordinatesError
          /\ provider_log' = provider_log
          /\ recommendations' = recommendations]_vars

\* a call under a provider that is switched on, with a token and a point of
\* interest, has enriched a listing with coordinates and then one without
C20_Witness ==
    /\ enricher = "returned"
    /\ is_mapbox_enabled
    /\ mapbox_access_token # Null
    /\ points_of_interest # <<>>
    /\ Len(enriched) = 2
    /\ enriched[1].static_map_url # Null
    /\ enriched[1].travel_times # <<>>
    /\ extract_coordinates(enriched[2].listing) = Null
    /\ "id" \in DOMAIN Val(enriched[2].listing)
    /\ enriched[2].error = MissingCoordinatesError

\* a step of an iteration in which a provider call fails: the request is not
\* answered, the token it needs is missing, or the body answered is no object
ProviderCallFailed ==
    /\ enricher = "looping"
    /\ at \in {"geocoding", "static_map", "travel_times"}
    /\ \/ /\ Len(provider_log') > Len(provider_log)
          /\ Last(provider_log') = RequestFailedWarning
       \/ /\ Len(provider_log') > Len(provider_log)
          /\ ~PyTruthy(mapbox_access_token)
       \/ enricher' = "raised"

\* C21: when a provider call made for a listing with coordinates fails, the
\* enricher does not raise, the iteration holds a fallback notice from then on
\* and the field the call was to give is null or empty.
C21_ProviderFailureFallback ==
    [][ProviderCallFailed =>
          /\ enricher' = "looping"
          /\ locals'.fallback # Null
          /\ at = "geocoding" => locals'.geocoding = Null
          /\ at = "static_map" => locals'.static_map = Null
          /\ at = "travel_times" => locals'.travel_times = <<>>]_vars

\* C22: when the provider is switched off, or its matrix request fails, the
\* travel estimation of an iteration gives one estimate for each point of
\* interest, each with a duration.
C22_LocalTravelEstimate ==
    [][(/\ enricher = "looping"
        /\ at = "travel_times"
        /\ enricher' = "looping"
        /\ \/ ~is_mapbox_enabled
           \/ /\ Len(provider_log') > Len(provider_log)
              /\ Last(provider_log') = RequestFailedWarning)
       => /\ Len(locals'.travel_times) = Len(points_of_interest)
          /\ \A i \in 1..Len(locals'.travel_times) :
                 locals'.travel_times[i].duration_minutes # Null]_vars

\* C23: the result of every listing with coordinates carries a map reference:
\* the static map URL of the provider when it is switched on and has a token,
\* and some other reference built from the coordinates when not.
C23_MapReference ==
    \A i \in 1..Len(enriched) :
        LET coordinates == extract_coordinates(enriched[i].listing)
        IN  coordinates # Null =>
                /\ enriched[i].static_map_url # Null
                /\ (is_mapbox_enabled /\ PyTruthy(mapbox_access_token)) =>
                       enriched[i].static_map_url =
                           StaticMapUrl(Val(coordinates)[1], Val(coordinates)[2])

\* C24: once a token lookup of the running call has found the token missing,
\* the provider counts as switched off: no later step of the call looks the
\* token up or sends a request, and no error is reported for a listing.
C24_DisabledAfterMissingToken ==
    [][(/\ enricher = "looping"
        /\ ~PyTruthy(mapbox_access_token)
        /\ \E i \in 1..Len(provider_log) : provider_log[i] = "require_mapbox_token")
       => /\ provider_log' = provider_log
          /\ locals'.error = Null]_vars

----------------------------------------------------------------------------
(* Claims about the Bayut toolset *)

\* a step posts a request
Posts == calls' # calls

\* the call a posting step appends
Posted == calls'[Len(calls')]

\* a posting step appends exactly one call, to /properties_search, and it is
\* the only step that starts a search
OnePost ==
    /\ Posts <=> searches' = searches + 1
    /\ Posts => /\ calls' = Append(calls, Posted)
                /\ Posted.url = "/properties_search"

\* C25 as stated: search_properties sends exactly one POST to
\* /properties_search whose body is the preferences restricted to the entries
\* that are not null and whose key the API definition lists, a key it does not
\* list is never sent, and page and language are the query parameters "page"
\* and "langs"
C25_Original ==
    [][/\ OnePost
       /\ Posts =>
            LET preferences == request'.preferences
                listed == {key \in DOMAIN preferences :
                              preferences[key] # Null /\ key \in allowed_filters}
            IN  /\ Posted.json = D([key \in listed |-> preferences[key]])
                /\ request'.page # Null =>
                       /\ Tag(Posted.params) = "dict"
                       /\ PyGet(Posted.params, "page") = request'.page
                       /\ PyGet(Posted.params, "langs") = request'.language]_vars

\* C25: search_properties sends exactly one POST to /properties_search. Its
\* body is the preferences restricted to the entries that are not null and,
\* when the API definition lists body properties, to the keys it lists (every
\* key goes through when it lists none). A page that is given is sent as
\* "page" and a non-empty language as "langs", each only when the API
\* definition lists that query parameter or lists none at all; no query
\* parameters are passed when none is left.
C25_RequestSent ==
    [][/\ OnePost
       /\ Posts =>
            LET preferences == request'.preferences
                page == request'.page
                language == request'.language
                sent == Val(Posted.json)
                accepted(name) == query_parameters = {} \/ name \in query_parameters
                has_page == page # Null /\ accepted("page")
                has_language == PyTruthy(language) /\ accepted("langs")
            IN  /\ Tag(Posted.json) = "dict"
                /\ \A key \in DOMAIN preferences :
                       IF preferences[key] # Null
                          /\ (allowed_filters = {} \/ key \in allowed_filters)
                       THEN key \in DOMAIN sent /\ sent[key] = preferences[key]
                       ELSE key \notin DOMAIN sent
                /\ DOMAIN sent \subseteq DOMAIN preferences
                /\ IF ~has_page /\ ~has_language THEN Posted.params = Null
                   ELSE /\ Tag(Posted.params) = "dict"
                        /\ DOMAIN Val(Posted.params) =
                               {name \in {"page", "langs"} :
                                   IF name = "page" THEN has_page ELSE has_language}
                        /\ has_page => Val(Posted.params)["page"] = page
                        /\ has_language => Val(Posted.params)["langs"] = language]_vars

\* a request was posted for preferences with a null entry and with a key the
\* API definition does not list, with page and language given and listed
C25_Witness ==
    /\ allowed_filters # {}
    /\ \E i \in 1..Len(calls) : calls[i].params = D([page |-> N(2), langs |-> S(<<"ar">>)])
    /\ \E i \in 1..Len(calls) : calls[i].json = D([purpose |-> S(<<"for-rent">>)])
    /\ \E i \in 1..Len(calls) :
           calls[i].json = D([purpose |-> S(<<"for-sale">>), price_min |-> N(1000000)])

\* a call of search_properties returns
Returns == search = "posted" /\ search' = "returned"

\* C26: the audit log is append-only. A call of search_properties or
\* recommend_similar that returns appends exactly one entry, after its request
\* was posted, whose request payload is the body that was posted and whose
\* response is the raw payload the call returns; no other step writes to the
\* log and no step changes or drops an earlier entry, so the entries are those
\* of the returning calls, in the order of the calls
C26_AuditAppendOnly ==
    [][/\ Len(audit_log') >= Len(audit_log)
       /\ SubSeq(audit_log', 1, Len(audit_log)) = audit_log
       /\ IF Returns
          THEN /\ Len(audit_log') = Len(audit_log) + 1
               /\ calls # <<>>
               /\ calls' = calls
               /\ LET entry == audit_log'[Len(audit_log')]
                      call == calls[Len(calls)]
                  IN  /\ entry.endpoint = "properties_search"
                      /\ D(entry.request.payload) = call.json
                      /\ call.params \in {D(entry.request.params), Null}
                      /\ entry.response = result'.raw
                      /\ Tag(request.response) = "response"
                             /\ Val(request.response).json # NotJson
                         => entry.response = Val(request.response).json
          ELSE audit_log' = audit_log]_vars

\* two calls returned after an earlier process had left an entry: the log
\* holds that entry and theirs, the first for a direct call with query
\* parameters, the second for a call through recommend_similar
C26_Witness ==
    /\ Len(audit_log) = 3
    /\ audit_log[1] = EarlierEntry
    /\ Len(calls) = 2
    /\ audit_log[2].request.params = [page |-> N(2), langs |-> S(<<"ar">>)]
    /\ "reference_ids" \in DOMAIN audit_log[3].request.payload
    /\ audit_log[3].response # audit_log[2].response

\* the node bayut_search is left
LeavesSearchNode == graph_at = "bayut_search" /\ graph_at' # "bayut_search"

\* the state of an invocation that ran as C27 says
InvocationResult ==
    /\ graph_trace = <<"register_tools", "bayut_search">>
    /\ caller = "graph"
    /\ request.preferences = Get(graph_input, "preferences", <<>>)
    /\ result_state["preferences"] = request.preferences
    /\ result_state["available_tools"] =
           IF "available_tools" \in DOMAIN graph_input THEN graph_input["available_tools"]
           ELSE ToolNames
    /\ result_state["property_cards"] = normalise_cards(coerce_json(request.response))
    /\ result_state["last_bayut_request"] =
           [payload |-> Val(calls[Len(calls)].json), params |-> request.params]
    /\ result_state["raw_payloads"] =
           Append(Get(graph_input, "raw_payloads", <<>>), coerce_json(request.response))

\* C27: an invocation of the property-search graph runs register_tools and
\* then bayut_search, once each, and then ends; the listings source was called
\* once with the preferences of the state, and the resulting state holds the
\* tool names (or the list the input state had), the normalised cards, the
\* body and parameters sent, and the raw payloads of the input state followed
\* by the new one
C27_GraphInvocation ==
    [][LeavesSearchNode => graph_at' = "__end__" /\ InvocationResult']_vars

----------------------------------------------------------------------------
(* Claims about the events of a chat turn *)

\* the text of the newest user message of the turn that returns
TurnMessage ==
    LET messages == Get(work, "messages", <<>>)
        users == {i \in 1..Len(messages) : messages[i].role = "user"}
    IN  messages[CHOOSE i \in users : \A j \in users : j <= i].content

\* the turn that returns emits a Lead event
EmitsLead == Len(leads_log') = Len(leads_log) + 1

\* the turn that returns emits a Feedback event
EmitsFeedback == Len(feedback_log') = Len(feedback_log) + 1

\* C28: a turn emits at most one Lead event and only for the user message of
\* that turn, which then carries contact details, so that a lead captured on
\* an earlier turn is not emitted again; it emits a Feedback event only when
\* the follow-up ran on that turn and found the listings empty
C28_EventsOfTheTurn ==
    [][/\ Len(leads_log') \in {Len(leads_log), Len(leads_log) + 1}
       /\ EmitsLead =>
              /\ "concierge_follow_up" \in Range(trace)
              /\ extract_lead(<<[role |-> "user", content |-> TurnMessage]>>) # NoLead
              /\ leads_log'[Len(leads_log')].lead.notes = TurnMessage
       /\ EmitsFeedback =>
              /\ "concierge_follow_up" \in Range(trace)
              /\ Get(work, "listings", <<>>) = <<>>]_vars

----------------------------------------------------------------------------
(* Claims about where a chat turn starts *)

\* the preferences the messages of the turns before this one gave
EarlierPreferences == Get(state, "preferences", <<>>)

\* C29: every turn starts at the first selected persona (preference elicitation
\* when none is selected), whatever next action the incoming state carries: the
\* first node a turn runs is that persona, also when the previous turn left the
\* state at "end"; and a turn whose elicitation completes the preferences goes
\* on to the search when the search is selected
C29_TurnStartsAtFirstPersona ==
    [][/\ pc = "called" /\ pc' = "running" =>
              current' = (IF agent_selection = <<>> THEN "preference_elicitation"
                          ELSE agent_selection[1])
       /\ trace = <<>> /\ trace' # <<>> => trace' = <<current>>
       /\ /\ trace' = <<"preference_elicitation">>
          /\ preferences_complete(Get(work', "preferences", <<>>))
          /\ "bayut_search" \in Range(Selected(agent_selection))
          => current' = "bayut_search"]_vars

\* the second turn of a conversation whose first turn ended at "end" with the
\* bedrooms only: the state came in at "end", elicitation ran first, completed
\* the preferences with the budget and the area, and the search ran
C29_Witness ==
    /\ turn = 2
    /\ agent_selection = <<>>
    /\ Get(state, "next_action", "") = "end"
    /\ ~preferences_complete(EarlierPreferences)
    /\ Get(state, "messages", <<>>)[2].content = TextBedOnly
    /\ TurnMessage = TextBudgetArea
    /\ Len(trace) >= 2
    /\ trace[1] = "preference_elicitation"
    /\ trace[2] = "bayut_search"
    /\ preferences_complete(Get(work, "preferences", <<>>))

----------------------------------------------------------------------------
(* Claims about the recommendation workflow *)

\* the routing node is left
LeavesRouting == workflow_at = "routing" /\ workflow_at' # "routing"

\* the points of the state that can be resolved
Resolvable ==
    LET points == Get(workflow_state, "points_of_interest", <<>>)
    IN  {i \in 1..Len(points) : ~ensure_point_raises(points[i])}

\* the name of a point of the state, as the resolved point carries it
NameOf(point) ==
    IF Tag(point) = "PointOfInterest" THEN Val(point).name ELSE PyStr(PyGet(point, "name"))

\* the resolved points are the resolvable points of the state, in their order
PointsKeepOrder ==
    /\ Len(points_of_interest) = Cardinality(Resolvable)
    /\ \A i \in Resolvable :
           points_of_interest[Cardinality({k \in Resolvable : k <= i})].name =
               NameOf(workflow_state["points_of_interest"][i])

\* the state after the enrichment step, as C30 says
EnrichmentResult ==
    LET entries == workflow_state["recommendations"]
        noticed == {i \in 1..Len(enriched) : enriched[i].fallback_message # Null}
    IN  /\ Len(entries) = Len(fetch_bayut)
        /\ \A i \in 1..Len(entries) :
               /\ Tag(entries[i]) = "dict"
               /\ Tag(fetch_bayut[i]) = "dict" =>
                      \A key \in DOMAIN Val(fetch_bayut[i]) \ {"map"} :
                          PyGet(entries[i], key) = Val(fetch_bayut[i])[key]
        /\ Len(enriched) = Len(entries)
        /\ workflow_state["map_enrichment_notice"] =
               IF noticed = {} THEN Null
               ELSE enriched[CHOOSE i \in noticed : \A j \in noticed : i <= j].fallback_message

\* C30: an invocation of the recommendation workflow runs fetch, map
\* enrichment and respond, once each and in that order, and then ends; the
\* points of interest that cannot be resolved are dropped and the others keep
\* their order; after the enrichment the recommendations hold one entry per
\* fetched listing in the same order and map_enrichment_notice is the fallback
\* notice of the first listing that has one, null when none has
C30_WorkflowRun ==
    [][/\ workflow_trace' = <<"bayut", "routing">> => PointsKeepOrder'
       /\ LeavesRouting => workflow_at' = "respond" /\ EnrichmentResult'
       /\ workflow_at = "respond" /\ workflow_at' # "respond" =>
              /\ workflow_at' = "__end__"
              /\ workflow_trace' = <<"bayut", "routing", "respond">>]_vars

====
